---- MODULE Spec2Model ----
(***************************************************************************)
(* Verification model of the quran-studio reverb engine                    *)
(* (ReverbEngine, FDNReverb, DelayLine, ParameterSmoother).                *)
(*                                                                         *)
(* Numbers.  The code computes in IEEE float; the model computes in        *)
(* integers with a fixed unit per quantity:                                *)
(*   percent parameters (wet/dry, density, damping)   1 = 1 %  = 0.01      *)
(*   room size, cross-feed, stereo width              1 = 0.01             *)
(*   decay time                                       1 = 0.1 s            *)
(*   pre-delay target                                 1 = 1 ms             *)
(*   delay-line delays and read positions             1 = 2^-23 sample     *)
(*   matrix gains                                     1 = 10^-4            *)
(* A sample value is 0 (exactly zero) or 1 (possibly non-zero).            *)
(***************************************************************************)
EXTENDS Integers, Sequences, FiniteSets, TLC

VARIABLES
    dl,      \* a stand-alone FDNReverb::DelayLine object
    dlObs,   \* the buffer indices used by the last DelayLine::process call
    fdn,     \* a stand-alone FDNReverb object
    fobs,    \* what the last FDNReverb call was given and what it found
    eng,     \* a ReverbEngine object (with the FDNReverb it owns)
    eobs,    \* what the last ReverbEngine call was given and what it returned
    sm,      \* a ParameterSmoother shared by a control and an audio thread
    smObs    \* the values the smoothers have been given and have returned

(***************************************************************************)
(* Arithmetic helpers                                                      *)
(***************************************************************************)
Abs(x) == IF x < 0 THEN -x ELSE x

\* F applied to the value of e: the C++ local `auto v = e; ... F(v)'
Let1(e, F(_)) == CHOOSE r \in { F(v) : v \in {e} } : TRUE

\* A float argument that is not a number.
NaN == -999999

\* operator< on floats: false as soon as one side is NaN.
FLess(a, b) == a # NaN /\ b # NaN /\ a < b

\* std::min(a, b) == (b < a) ? b : a ; std::max(a, b) == (a < b) ? b : a
StdMin(a, b) == IF FLess(b, a) THEN b ELSE a
StdMax(a, b) == IF FLess(a, b) THEN b ELSE a

\* std::clamp(v, lo, hi) == (v < lo) ? lo : (hi < v) ? hi : v
StdClamp(v, lo, hi) == IF FLess(v, lo) THEN lo ELSE IF FLess(hi, v) THEN hi ELSE v

(***************************************************************************)
(* IEEE single precision.  Delay positions are counted in units of         *)
(* 2^-23 sample, the spacing of floats in [1, 2).  A float of magnitude    *)
(* in [2^k, 2^(k+1)) samples, k >= 1, is a multiple of 2^k such units.     *)
(***************************************************************************)
FloatFracBits == 23
RECURSIVE Pow2(_)
Pow2(n) == IF n = 0 THEN 1 ELSE 2 * Pow2(n - 1)
Q == Pow2(FloatFracBits)

RECURSIVE UlpOf(_)
UlpOf(a) == IF a < 2 * Q THEN 1 ELSE 2 * UlpOf(a \div 2)

\* Round-to-nearest, ties-to-even, of the exact value x to a float.
\* a >= 0 rounded to a multiple of u, ties to the even multiple
RoundAbs(a, u) ==
    Let1((a \div u) * u, LAMBDA lo :
        IF 2 * (a - lo) < u THEN lo
        ELSE IF 2 * (a - lo) > u THEN lo + u
        ELSE IF (lo \div u) % 2 = 0 THEN lo ELSE lo + u)

RoundF(x) ==
    IF x < 0 THEN -RoundAbs(-x, UlpOf(-x)) ELSE RoundAbs(x, UlpOf(x))

\* static_cast<float>(int)
IntToFloat(n) == RoundF(n * Q)

(***************************************************************************)
(* FDNReverb::DelayLine                                                    *)
(***************************************************************************)
Sample == {0, 1}

\* sample1 + fraction * (sample2 - sample1)
Interpolate(s1, s2, fraction) ==
    IF fraction = 0 THEN s1 ELSE IF s1 = 0 /\ s2 = 0 THEN 0 ELSE 1

DelayLine(maxLength) ==
    [ buffer_     |-> [i \in 0 .. (maxLength - 1) |-> 0],
      writeIndex_ |-> 0,
      delay_      |-> 0,
      maxLength_  |-> maxLength ]

DL_setDelay(d, delaySamples) ==
    [d EXCEPT !.delay_ = StdMax(Q, StdMin(delaySamples, IntToFloat(d.maxLength_ - 1)))]

\* float readPos = writeIndex_ - delay_; if (readPos < 0) readPos += maxLength_;
DL_readPos(d) ==
    Let1(RoundF(d.writeIndex_ * Q - d.delay_), LAMBDA p :
        IF p < 0 THEN RoundF(p + d.maxLength_ * Q) ELSE p)

\* static_cast<int>(readPos) truncates toward zero
\* static_cast<int>(readPos)
DL_readIndex1(readPos) ==
    IF readPos >= 0 THEN readPos \div Q ELSE -((-readPos) \div Q)

DL_readIndex2(readPos, maxLength) == (DL_readIndex1(readPos) + 1) % maxLength

DL_fraction(readPos) == readPos - DL_readIndex1(readPos) * Q

\* buffer_[i].  A read outside the vector is undefined behaviour: it may
\* yield any value, which is sample 1 (possibly non-zero).
DL_read(buffer, i) == IF i \in DOMAIN buffer THEN buffer[i] ELSE 1

\* One call of DelayLine::process(input), with the indices it used.
DL_process(d, input) ==
    Let1(DL_readPos(d), LAMBDA readPos :
    Let1([d.buffer_ EXCEPT ![d.writeIndex_] = input], LAMBDA buf :
        [ line   |-> [d EXCEPT !.buffer_ = buf,
                               !.writeIndex_ = (d.writeIndex_ + 1) % d.maxLength_],
          output |-> Interpolate(DL_read(buf, DL_readIndex1(readPos)),
                                 DL_read(buf, DL_readIndex2(readPos, d.maxLength_)),
                                 DL_fraction(readPos)),
          write  |-> d.writeIndex_,
          read1  |-> DL_readIndex1(readPos),
          read2  |-> DL_readIndex2(readPos, d.maxLength_) ]))

DL_clear(d) ==
    [d EXCEPT !.buffer_ = [i \in DOMAIN d.buffer_ |-> 0], !.writeIndex_ = 0]

(***************************************************************************)
(* Model size.  Every delay buffer longer than LenCap slots is modelled    *)
(* with LenCap slots; delays keep their real length in samples and are     *)
(* brought into the buffer by DelayLine::setDelay's own clamp.  Delays     *)
(* above SatSamples samples are represented as SatSamples.                 *)
(***************************************************************************)
LenCap == 4
SatSamples == 64

ModelLen(n) == IF n > LenCap THEN LenCap ELSE n

\* A delay given in 1/1000 sample, as a float in DelayLine units.
DelayQ(milli) ==
    LET whole == milli \div 1000
        frac  == milli % 1000
    IN  IF whole >= SatSamples THEN SatSamples * Q
        ELSE whole * Q + ((frac * 8192) \div 1000) * (Q \div 8192)

\* 1 when some value of the set is (possibly) non-zero
Mix(S) == IF \E s \in S : s # 0 THEN 1 ELSE 0

\* gain * sample
Scaled(gain, s) == IF gain = 0 THEN 0 ELSE s

(***************************************************************************)
(* FDNReverb::AllPassFilter                                                *)
(***************************************************************************)
AllPassFilter(delayLength, gain) ==
    [ delay_ |-> DelayLine(ModelLen(delayLength)), gain_ |-> gain, lastOutput_ |-> 0 ]

AP_process(ap, input) ==
    Let1(DL_process(ap.delay_, 0), LAMBDA rd :
    Let1(Mix({Scaled(ap.gain_, input), rd.output, Scaled(ap.gain_, ap.lastOutput_)}),
         LAMBDA output :
    Let1(DL_process(rd.line, Mix({input, Scaled(ap.gain_, output)})), LAMBDA wr :
        [ filter |-> [ap EXCEPT !.delay_ = wr.line, !.lastOutput_ = output],
          output |-> output ])))

AP_clear(ap) == [ap EXCEPT !.delay_ = DL_clear(ap.delay_), !.lastOutput_ = 0]

AP_setGain(ap, gain) == [ap EXCEPT !.gain_ = gain]

\* for (auto& filter : filters) x = filter->process(x);
RECURSIVE AP_chain(_, _, _)
AP_chain(filters, k, x) ==
    IF k > Len(filters) THEN [filters |-> filters, output |-> x]
    ELSE Let1(AP_process(filters[k], x), LAMBDA r :
         Let1([filters EXCEPT ![k] = r.filter], LAMBDA rest :
             AP_chain(rest, k + 1, r.output)))

(***************************************************************************)
(* BiquadFilter and FDNReverb::DampingFilter.  Coefficients are kept as    *)
(* `unity' (b0 = 1, b1 = b2 = a1 = a2 = 0) or not.                         *)
(***************************************************************************)
BiquadFilter == [unity |-> TRUE, x1 |-> 0, x2 |-> 0, y1 |-> 0, y2 |-> 0]

BQ_process(f, input) ==
    LET output == IF f.unity THEN input
                  ELSE Mix({input, f.x1, f.x2, f.y1, f.y2})
    IN  [ filter |-> [f EXCEPT !.x2 = f.x1, !.x1 = input, !.y2 = f.y1, !.y1 = output],
          output |-> output ]

BQ_clear(f) == [f EXCEPT !.x1 = 0, !.x2 = 0, !.y1 = 0, !.y2 = 0]

\* the coefficient routines, were they to leave the filter alone at 0 %
DF_calculateCoeffs_keep(filter, dampingPercent) ==
    [filter EXCEPT !.unity = IF dampingPercent > 0 THEN FALSE ELSE @]

\* calculateLowpassCoeffs / calculateHighpassCoeffs (DampingFilter)
DF_calculateCoeffs(filter, dampingPercent) ==
    [filter EXCEPT !.unity = ~(dampingPercent > 0)]

DF_setHFDamping(df, dampingPercent, cutoffHz) ==
    LET p == StdClamp(dampingPercent, 0, 100)
    IN  [df EXCEPT !.hfDampingPercent_ = p,
                   !.hfCutoffHz_ = StdClamp(cutoffHz, 1000, 12000),
                   !.hfFilter_ = DF_calculateCoeffs(df.hfFilter_, p)]

DF_setLFDamping(df, dampingPercent, cutoffHz) ==
    LET p == StdClamp(dampingPercent, 0, 100)
    IN  [df EXCEPT !.lfDampingPercent_ = p,
                   !.lfCutoffHz_ = StdClamp(cutoffHz, 50, 500),
                   !.lfFilter_ = DF_calculateCoeffs(df.lfFilter_, p)]

DampingFilter ==
    DF_setLFDamping(
        DF_setHFDamping(
            [ hfFilter_ |-> BiquadFilter, lfFilter_ |-> BiquadFilter,
              hfCutoffHz_ |-> 8000, lfCutoffHz_ |-> 200,
              hfDampingPercent_ |-> 0, lfDampingPercent_ |-> 0 ],
            0, 8000),
        0, 200)

DF_process(df, input) ==
    Let1(BQ_process(df.hfFilter_, input), LAMBDA hf :
    Let1(BQ_process(df.lfFilter_, hf.output), LAMBDA lf :
        [ filter |-> [df EXCEPT !.hfFilter_ = hf.filter, !.lfFilter_ = lf.filter],
          output |-> lf.output ]))

DF_clear(df) ==
    [df EXCEPT !.hfFilter_ = BQ_clear(df.hfFilter_), !.lfFilter_ = BQ_clear(df.lfFilter_)]

(***************************************************************************)
(* Mid/Side width stage: left = mid + side, right = mid - side with        *)
(* mid = (l + r)/2 and side = (l - r)/2 * width; the other channel drops   *)
(* out exactly when width = 1.0 (100).                                     *)
(***************************************************************************)
MidSide(l, r, width) ==
    [ left  |-> Mix({l, IF width # 100 THEN r ELSE 0}),
      right |-> Mix({r, IF width # 100 THEN l ELSE 0}) ]

(***************************************************************************)
(* FDNReverb::CrossFeedProcessor                                           *)
(***************************************************************************)
XF_updateDelayLengths(xf) ==
    LET delaySamples == DelayQ(xf.crossDelayMs_ * xf.sampleRate_)
    IN  [xf EXCEPT !.crossDelayL_ = DL_setDelay(xf.crossDelayL_, delaySamples),
                   !.crossDelayR_ = DL_setDelay(xf.crossDelayR_, delaySamples)]

CrossFeedProcessor(sampleRate) ==
    XF_updateDelayLengths(
        [ crossDelayL_     |-> DelayLine(ModelLen(sampleRate \div 20)),
          crossDelayR_     |-> DelayLine(ModelLen(sampleRate \div 20)),
          crossFeedAmount_ |-> 50,
          crossDelayMs_    |-> 10,
          stereoWidth_     |-> 100,
          phaseInvert_     |-> FALSE,
          bypass_          |-> FALSE,
          sampleRate_      |-> sampleRate ])

XF_clear(xf) ==
    [xf EXCEPT !.crossDelayL_ = DL_clear(xf.crossDelayL_),
               !.crossDelayR_ = DL_clear(xf.crossDelayR_)]

\* One iteration of the sample loop of CrossFeedProcessor::processStereo.
XF_sample(xf, inputL, inputR) ==
    IF xf.bypass_
    THEN LET ms == MidSide(inputL, inputR, xf.stereoWidth_)
         IN  [xf |-> xf, left |-> ms.left, right |-> ms.right]
    ELSE Let1(DL_process(xf.crossDelayL_, 0), LAMBDA rdL :
         Let1(DL_process(xf.crossDelayR_, 0), LAMBDA rdR :
         Let1(MidSide(Mix({inputL, Scaled(xf.crossFeedAmount_, rdR.output)}),
                      Mix({inputR, Scaled(xf.crossFeedAmount_, rdL.output)}),
                      xf.stereoWidth_), LAMBDA ms :
             [ xf    |-> [xf EXCEPT !.crossDelayL_ = DL_process(rdL.line, inputL).line,
                                    !.crossDelayR_ = DL_process(rdR.line, inputR).line],
               left  |-> ms.left,
               right |-> ms.right ])))

RECURSIVE XF_processStereo(_, _, _, _)
XF_processStereo(xf, left, right, i) ==
    IF i > Len(left) THEN [xf |-> xf, left |-> left, right |-> right]
    ELSE Let1(XF_sample(xf, left[i], right[i]), LAMBDA r :
         Let1([left EXCEPT ![i] = r.left], LAMBDA l :
         Let1([right EXCEPT ![i] = r.right], LAMBDA rr :
             XF_processStereo(r.xf, l, rr, i + 1))))

(***************************************************************************)
(* FDNReverb::StereoSpreadProcessor and FDNReverb::ToneFilter              *)
(***************************************************************************)
StereoSpreadProcessor == [stereoWidth_ |-> 100, compensateGain_ |-> TRUE]

SP_processStereo(sp, left, right) ==
    [ left  |-> [i \in DOMAIN left |-> MidSide(left[i], right[i], sp.stereoWidth_).left],
      right |-> [i \in DOMAIN left |-> MidSide(left[i], right[i], sp.stereoWidth_).right] ]

ToneFilter ==
    [ highCutEnabled_ |-> FALSE, lowCutEnabled_ |-> FALSE,
      highCutFreq_ |-> 20000, lowCutFreq_ |-> 20,
      highCutL_ |-> [BiquadFilter EXCEPT !.unity = FALSE],
      highCutR_ |-> [BiquadFilter EXCEPT !.unity = FALSE],
      lowCutL_  |-> [BiquadFilter EXCEPT !.unity = FALSE],
      lowCutR_  |-> [BiquadFilter EXCEPT !.unity = FALSE] ]

TF_clear(tf) ==
    [tf EXCEPT !.highCutL_ = BQ_clear(tf.highCutL_), !.highCutR_ = BQ_clear(tf.highCutR_),
               !.lowCutL_ = BQ_clear(tf.lowCutL_), !.lowCutR_ = BQ_clear(tf.lowCutR_)]

TF_sample(tf, l, r) ==
    Let1(IF tf.highCutEnabled_
         THEN LET hL == BQ_process(tf.highCutL_, l)
                  hR == BQ_process(tf.highCutR_, r)
              IN  [ tf |-> [tf EXCEPT !.highCutL_ = hL.filter, !.highCutR_ = hR.filter],
                    left |-> hL.output, right |-> hR.output ]
         ELSE [tf |-> tf, left |-> l, right |-> r], LAMBDA hc :
        IF tf.lowCutEnabled_
        THEN LET cL == BQ_process(hc.tf.lowCutL_, hc.left)
                 cR == BQ_process(hc.tf.lowCutR_, hc.right)
             IN  [ tf |-> [hc.tf EXCEPT !.lowCutL_ = cL.filter, !.lowCutR_ = cR.filter],
                   left |-> cL.output, right |-> cR.output ]
        ELSE hc)

RECURSIVE TF_processStereo(_, _, _, _)
TF_processStereo(tf, left, right, i) ==
    IF i > Len(left) THEN [tf |-> tf, left |-> left, right |-> right]
    ELSE Let1(TF_sample(tf, left[i], right[i]), LAMBDA r :
         Let1([left EXCEPT ![i] = r.left], LAMBDA l :
         Let1([right EXCEPT ![i] = r.right], LAMBDA rr :
             TF_processStereo(r.tf, l, rr, i + 1))))

(***************************************************************************)
(* FDNReverb                                                               *)
(***************************************************************************)
MAX_DELAY_LENGTH == 96000
ROOM_SIZE_CHANGE_THRESHOLD == 5

PRIME_DELAYS ==
    << 1447, 1549, 1693, 1789, 1907, 2063, 2179, 2311, 2467, 2633,
       2801, 2969, 3137, 3307, 3491, 3677, 3863, 4051, 4241, 4801 >>

EARLY_REFLECTION_DELAYS == << 241, 317, 431, 563, 701, 857, 997, 1151 >>

DiffusionPrimes == << 89, 109, 127, 149, 167, 191, 211, 233 >>

ModulatedDelay(maxLength) ==
    [ delay_ |-> DelayLine(ModelLen(maxLength)), modPhase_ |-> 0 ]

MD_clear(md) == [md EXCEPT !.delay_ = DL_clear(md.delay_), !.modPhase_ = 0]

Zeros(n) == [i \in 1 .. n |-> 0]

\* 10^(-x) with x in units of 10^-4, result in units of 10^-4
Pow10Tenths == << 10000, 7943, 6310, 5012, 3981, 3162, 2512, 1995, 1585, 1259 >>
Pow10Hundredths == << 10000, 9772, 9550, 9333, 9120, 8913, 8710, 8511, 8318, 8128 >>
Pow10Thousandths == << 10000, 9977, 9954, 9931, 9908, 9886, 9863, 9840, 9817, 9795 >>
Pow10TenThousandths == << 10000, 9998, 9995, 9993, 9991, 9988, 9986, 9984, 9982, 9979 >>

RECURSIVE Pow10(_)
Pow10(n) == IF n = 0 THEN 1 ELSE 10 * Pow10(n - 1)

Pow10Neg(x) ==
    LET k  == x \div 10000
        d1 == (x \div 1000) % 10
        d2 == (x \div 100) % 10
        d3 == (x \div 10) % 10
        d4 == x % 10
        m1 == (Pow10Tenths[d1 + 1] * Pow10Hundredths[d2 + 1]) \div 10000
        m2 == (m1 * Pow10Thousandths[d3 + 1]) \div 10000
        m3 == (m2 * Pow10TenThousandths[d4 + 1]) \div 10000
    IN  IF k > 4 THEN 0 ELSE m3 \div Pow10(k)

\* PRIME_DELAYS[min(i, size-1)] * sampleRateScale * roomScale, clamped
\* (i counts from 0 as in the source)
FDN_scaledDelay(f, i, baseSize) ==
    LET primeIndex == IF i < Len(PRIME_DELAYS) - 1 THEN i ELSE Len(PRIME_DELAYS) - 1
        scaled == (PRIME_DELAYS[primeIndex + 1] * (f.sampleRate_ \div 100)
                      * (100 + 3 * baseSize)) \div (480 * 200)
    IN  StdClamp(scaled, 200, MAX_DELAY_LENGTH - 1)

FDN_calculateDelayLengths(f, baseSize) ==
    [ k \in 1 .. f.numDelayLines_ |->
        FDN_scaledDelay(f, k - 1, baseSize)
            + (IF k - 1 > 0 THEN ((k - 1) % 3) - 1 ELSE 0) ]

FDN_setupDelayLengths(f) ==
    LET lengths == FDN_calculateDelayLengths(f, f.roomSize_)
    IN  [f EXCEPT !.delayLines_ =
            [k \in 1 .. f.numDelayLines_ |->
                DL_setDelay(f.delayLines_[k], DelayQ(lengths[k] * 1000))]]

RECURSIVE SumSeq(_, _)
SumSeq(s, k) == IF k = 0 THEN 0 ELSE s[k] + SumSeq(s, k - 1)

FDN_calculateAverageDelayTime(f) ==
    SumSeq(FDN_calculateDelayLengths(f, f.roomSize_), f.numDelayLines_)
        \div f.numDelayLines_

\* result in 1/100 s
FDN_calculateMaxDecayForSize(roomSize) ==
    IF roomSize <= 30 THEN 800
    ELSE IF roomSize <= 70 THEN 800 - 5 * (roomSize - 30)
    ELSE 600 - 10 * (roomSize - 70)

\* feedbackMatrix_ is g * H with H orthogonal; the model keeps the scalar g
\* (units of 10^-4).  generateHouseholderMatrix overwrites every element.
FDN_generateHouseholderMatrix(f) == [f EXCEPT !.feedbackMatrix_ = 10000]

\* the size-dependent margin alone, without the 0.97 limit
FDN_stabilityLimit_sizeOnly(f) == 9800 - 3 * f.roomSize_

FDN_stabilityLimit(f) == StdMin(9700, 9800 - 3 * f.roomSize_)

FDN_freqWeightedGain(f) ==
    LET averageDelayTime == FDN_calculateAverageDelayTime(f)
        maxDecayForSize  == FDN_calculateMaxDecayForSize(f.roomSize_)
        limitedDecayTime == StdMin(f.decayTime_ * 10, maxDecayForSize)
        deltaT           == (averageDelayTime * 10000) \div (f.sampleRate_ \div 100)
        rt60             == StdMax(limitedDecayTime, 5)
        theoreticalGain  == Pow10Neg((3 * deltaT) \div rt60)
        hfDecayFactor    == 10000 - 25 * f.highFreqDamping_
        lfDecayFactor    == 10000 - 15 * f.lowFreqDamping_
    IN  (((theoreticalGain * hfDecayFactor) \div 10000) * lfDecayFactor) \div 10000

FDN_finalGain(f) == StdMin(FDN_freqWeightedGain(f), FDN_stabilityLimit(f))

FDN_setupFeedbackMatrix(f) ==
    Let1(FDN_generateHouseholderMatrix(f), LAMBDA h :
        [h EXCEPT !.feedbackMatrix_ = (h.feedbackMatrix_ * FDN_finalGain(h)) \div 10000])

FDN_setupEarlyReflections(f) ==
    LET n == IF f.numEarlyReflections_ < Len(EARLY_REFLECTION_DELAYS)
             THEN f.numEarlyReflections_ ELSE Len(EARLY_REFLECTION_DELAYS)
    IN  [f EXCEPT !.earlyReflectionFilters_ =
            [k \in 1 .. n |->
                LET scaledDelay ==
                        (EARLY_REFLECTION_DELAYS[k] * (f.sampleRate_ \div 100)
                            * (300 + 7 * f.roomSize_)) \div (480 * 1000)
                IN  AllPassFilter(StdClamp(scaledDelay, 10, 2400), 750 - 50 * (k - 1))]]

FDNReverb(sampleRate, numDelayLines) ==
    LET n == StdMax(4, StdMin(numDelayLines, 12))
        f == [ sampleRate_             |-> sampleRate,
               numDelayLines_          |-> n,
               numEarlyReflections_    |-> 4,
               lastRoomSize_           |-> 50,
               needsBufferFlush_       |-> FALSE,
               decayTime_              |-> 20,
               preDelay_               |-> 0,
               roomSize_               |-> 50,
               density_                |-> 70,
               highFreqDamping_        |-> 30,
               lowFreqDamping_         |-> 20,
               delayLines_             |-> [k \in 1 .. n |-> DelayLine(ModelLen(MAX_DELAY_LENGTH))],
               diffusionFilters_       |->
                   [k \in 1 .. Len(DiffusionPrimes) |->
                       AllPassFilter(DiffusionPrimes[k], 700 - 30 * (k - 1))],
               dampingFilters_         |-> [k \in 1 .. n |-> DampingFilter],
               modulatedDelays_        |->
                   [k \in 1 .. n |-> ModulatedDelay(MAX_DELAY_LENGTH \div 4)],
               earlyReflectionFilters_ |-> << >>,
               preDelayLine_           |-> DelayLine(ModelLen(sampleRate \div 5)),
               crossFeedProcessor_     |-> CrossFeedProcessor(sampleRate),
               stereoSpreadProcessor_  |-> StereoSpreadProcessor,
               toneFilter_             |-> ToneFilter,
               delayOutputs_           |-> Zeros(n),
               matrixOutputs_          |-> Zeros(n),
               feedbackMatrix_         |-> 0 ]
    IN  Let1(FDN_setupDelayLengths(f), LAMBDA f1 :
        Let1(FDN_setupFeedbackMatrix(f1), LAMBDA f2 :
            FDN_setupEarlyReflections(f2)))

FDN_setDecayTime(f, decayTimeSeconds) ==
    Let1([f EXCEPT !.decayTime_ = StdMax(1, StdMin(decayTimeSeconds, 100))], LAMBDA f1 :
        FDN_setupFeedbackMatrix(f1))

\* preDelaySamples in 1/1000 sample
FDN_setPreDelay(f, preDelaySamples) ==
    LET p == StdMax(0, StdMin(preDelaySamples, f.sampleRate_ * 200))
    IN  [f EXCEPT !.preDelay_ = p,
                  !.preDelayLine_ = DL_setDelay(f.preDelayLine_, DelayQ(p))]

FDN_setRoomSize(f, size) ==
    LET newSize == StdClamp(size, 0, 100)
        flagged == IF Abs(newSize - f.roomSize_) > ROOM_SIZE_CHANGE_THRESHOLD
                   THEN [f EXCEPT !.needsBufferFlush_ = TRUE] ELSE f
    IN  Let1([flagged EXCEPT !.roomSize_ = newSize], LAMBDA f1 :
        Let1(FDN_setupDelayLengths(f1), LAMBDA f2 :
            FDN_setupEarlyReflections(f2)))

FDN_setDensity(f, density) ==
    LET d == StdMax(0, StdMin(density, 100))
    IN  [f EXCEPT !.density_ = d,
                  !.diffusionFilters_ =
                      [k \in DOMAIN f.diffusionFilters_ |->
                          AP_setGain(f.diffusionFilters_[k], 500 + 3 * d)]]

FDN_setHighFreqDamping(f, damping) ==
    LET d        == StdClamp(damping, 0, 100)
        cutoffHz == 12000 - damping * 110
    IN  [f EXCEPT !.highFreqDamping_ = d,
                  !.dampingFilters_ =
                      [k \in DOMAIN f.dampingFilters_ |->
                          DF_setHFDamping(f.dampingFilters_[k], d, cutoffHz)]]

FDN_setLowFreqDamping(f, damping) ==
    LET d        == StdClamp(damping, 0, 100)
        cutoffHz == 50 + (damping * 450) \div 100
    IN  [f EXCEPT !.lowFreqDamping_ = d,
                  !.dampingFilters_ =
                      [k \in DOMAIN f.dampingFilters_ |->
                          DF_setLFDamping(f.dampingFilters_[k], d, cutoffHz)]]

FDN_clear(f) ==
    [f EXCEPT !.delayLines_ = [k \in DOMAIN f.delayLines_ |-> DL_clear(f.delayLines_[k])],
              !.diffusionFilters_ =
                  [k \in DOMAIN f.diffusionFilters_ |-> AP_clear(f.diffusionFilters_[k])],
              !.dampingFilters_ =
                  [k \in DOMAIN f.dampingFilters_ |-> DF_clear(f.dampingFilters_[k])],
              !.modulatedDelays_ =
                  [k \in DOMAIN f.modulatedDelays_ |-> MD_clear(f.modulatedDelays_[k])],
              !.earlyReflectionFilters_ =
                  [k \in DOMAIN f.earlyReflectionFilters_ |->
                      AP_clear(f.earlyReflectionFilters_[k])],
              !.toneFilter_ = TF_clear(f.toneFilter_),
              !.preDelayLine_ = DL_clear(f.preDelayLine_),
              !.delayOutputs_ = Zeros(f.numDelayLines_),
              !.matrixOutputs_ = Zeros(f.numDelayLines_)]

FDN_reset(f) ==
    Let1(FDN_clear(f), LAMBDA f1 :
    Let1(FDN_setupDelayLengths(f1), LAMBDA f2 :
        FDN_setupFeedbackMatrix(f2)))

\* a flush that forgets the cross-feed lines, as clear() does
FDN_flushAllBuffers_keepCrossFeed(f) == FDN_clear(f)

FDN_flushAllBuffers(f) ==
    [f EXCEPT !.delayLines_ = [k \in DOMAIN f.delayLines_ |-> DL_clear(f.delayLines_[k])],
              !.diffusionFilters_ =
                  [k \in DOMAIN f.diffusionFilters_ |-> AP_clear(f.diffusionFilters_[k])],
              !.earlyReflectionFilters_ =
                  [k \in DOMAIN f.earlyReflectionFilters_ |->
                      AP_clear(f.earlyReflectionFilters_[k])],
              !.dampingFilters_ =
                  [k \in DOMAIN f.dampingFilters_ |-> DF_clear(f.dampingFilters_[k])],
              !.modulatedDelays_ =
                  [k \in DOMAIN f.modulatedDelays_ |-> MD_clear(f.modulatedDelays_[k])],
              !.preDelayLine_ = DL_clear(f.preDelayLine_),
              !.crossFeedProcessor_ = XF_clear(f.crossFeedProcessor_),
              !.toneFilter_ = TF_clear(f.toneFilter_),
              !.delayOutputs_ = Zeros(f.numDelayLines_),
              !.matrixOutputs_ = Zeros(f.numDelayLines_)]

\* checkAndFlushBuffers without the size comparison
FDN_checkAndFlushBuffers_flagOnly(f) ==
    IF f.needsBufferFlush_
    THEN [FDN_flushAllBuffers(f) EXCEPT !.needsBufferFlush_ = FALSE]
    ELSE f

FDN_checkAndFlushBuffers(f) ==
    Let1(IF Abs(f.roomSize_ - f.lastRoomSize_) > ROOM_SIZE_CHANGE_THRESHOLD
         THEN [f EXCEPT !.needsBufferFlush_ = TRUE, !.lastRoomSize_ = f.roomSize_]
         ELSE f, LAMBDA checked :
        IF checked.needsBufferFlush_
        THEN [FDN_flushAllBuffers(checked) EXCEPT !.needsBufferFlush_ = FALSE]
        ELSE checked)

\* for j: delayOutputs_[j] = delayLines_[j]->process(0)
FDN_readLines(f) ==
    Let1([k \in DOMAIN f.delayLines_ |-> DL_process(f.delayLines_[k], 0)], LAMBDA r :
        [f EXCEPT !.delayLines_ = [k \in DOMAIN r |-> r[k].line],
                  !.delayOutputs_ = [k \in DOMAIN r |-> r[k].output]])

FDN_processMatrix(f) ==
    [f EXCEPT !.matrixOutputs_ =
        [k \in 1 .. f.numDelayLines_ |->
            Mix({Scaled(f.feedbackMatrix_, f.delayOutputs_[j]) : j \in 1 .. f.numDelayLines_})]]

\* The damping / write-back loop; `diffused' is the diffused input sample.
FDN_writeLines(f, diffused) ==
    Let1([k \in DOMAIN f.dampingFilters_ |->
             DF_process(f.dampingFilters_[k], f.matrixOutputs_[k])], LAMBDA d :
        [ fdn    |-> [f EXCEPT !.dampingFilters_ = [k \in DOMAIN d |-> d[k].filter],
                               !.delayLines_ =
                                   [k \in DOMAIN f.delayLines_ |->
                                       DL_process(f.delayLines_[k],
                                                  Mix({diffused, d[k].output})).line]],
          damped |-> [k \in DOMAIN d |-> d[k].output] ])

\* One iteration of the sample loop shared by processMono and processStereo.
FDN_sample(f, input) ==
    Let1(DL_process(f.preDelayLine_, input), LAMBDA pre :
    Let1(AP_chain(f.earlyReflectionFilters_, 1, pre.output), LAMBDA er :
    Let1(AP_chain(f.diffusionFilters_, 1, er.output), LAMBDA diff :
    Let1([f EXCEPT !.preDelayLine_ = pre.line,
                   !.earlyReflectionFilters_ = er.filters,
                   !.diffusionFilters_ = diff.filters], LAMBDA f1 :
    Let1(FDN_readLines(f1), LAMBDA f2 :
    Let1(FDN_processMatrix(f2), LAMBDA f3 :
    Let1(FDN_writeLines(f3, diff.output), LAMBDA wr :
        [ fdn |-> wr.fdn,
          output |-> Mix({wr.damped[k] : k \in DOMAIN wr.damped}) ])))))))

RECURSIVE FDN_sampleLoop(_, _, _, _)
FDN_sampleLoop(f, input, output, i) ==
    IF i > Len(input) THEN [fdn |-> f, output |-> output]
    ELSE Let1(FDN_sample(f, input[i]), LAMBDA r :
         Let1(Append(output, r.output), LAMBDA out :
             FDN_sampleLoop(r.fdn, input, out, i + 1)))

FDN_processMono(f, input) ==
    Let1(FDN_checkAndFlushBuffers(f), LAMBDA f0 :
        FDN_sampleLoop(f0, input, << >>, 1))

FDN_processStereo(f, inputL, inputR) ==
    Let1(FDN_checkAndFlushBuffers(f), LAMBDA f0 :
    Let1(XF_processStereo(f0.crossFeedProcessor_, inputL, inputR, 1), LAMBDA xf :
    Let1(FDN_sampleLoop([f0 EXCEPT !.crossFeedProcessor_ = xf.xf], xf.left, << >>, 1),
         LAMBDA loop :
    Let1(SP_processStereo(loop.fdn.stereoSpreadProcessor_, loop.output, loop.output),
         LAMBDA sp :
    Let1(TF_processStereo(loop.fdn.toneFilter_, sp.left, sp.right, 1), LAMBDA tf :
        [ fdn     |-> [loop.fdn EXCEPT !.toneFilter_ = tf.tf],
          outputL |-> tf.left,
          outputR |-> tf.right ])))))

(***************************************************************************)
(* ReverbEngine                                                            *)
(***************************************************************************)
MAX_CHANNELS == 2
MAX_DELAY_LINES == 8
MIN_SAMPLE_RATE == 44100
MAX_SAMPLE_RATE == 96000

Null == [ptr |-> "null"]

\* Defaults of the three targets whose declaration is not in the sources.
DefaultLowFreqDamping == 20
DefaultStereoWidth == 100
DefaultPhaseInvert == FALSE

\* struct Parameters: percentages in 1, decayTime in 1/10 s, preDelay in ms,
\* crossFeed, roomSize and stereoWidth in 1/100
Parameters ==
    [ wetDryMix       |-> 35,
      decayTime       |-> 20,
      preDelay        |-> 75,
      crossFeed       |-> 50,
      roomSize        |-> 82,
      density         |-> 70,
      highFreqDamping |-> 50,
      lowFreqDamping  |-> DefaultLowFreqDamping,
      stereoWidth     |-> DefaultStereoWidth,
      phaseInvert     |-> DefaultPhaseInvert,
      bypass          |-> FALSE ]

\* the declared range of each float target
ParamRange ==
    [ wetDryMix       |-> <<0, 100>>,
      decayTime       |-> <<1, 80>>,
      preDelay        |-> <<0, 200>>,
      crossFeed       |-> <<0, 100>>,
      roomSize        |-> <<0, 100>>,
      density         |-> <<0, 100>>,
      highFreqDamping |-> <<0, 100>>,
      lowFreqDamping  |-> <<0, 100>>,
      stereoWidth     |-> <<0, 200>> ]

FloatParams == DOMAIN ParamRange

\* std::max(min, std::min(max, value)) without the upper limit
ENG_clamp_noUpper(value, min, max) == StdMax(min, value)

ENG_clamp(value, min, max) == StdMax(min, StdMin(max, value))

\* setWetDryMix .. setStereoWidth: params_.<p>.store(clamp(value, lo, hi))
ENG_setFloat(e, p, value) ==
    [e EXCEPT !.params_[p] = ENG_clamp(value, ParamRange[p][1], ParamRange[p][2])]

ENG_setBypass(e, bypass) == [e EXCEPT !.params_.bypass = bypass]

ENG_setPhaseInvert(e, invert) == [e EXCEPT !.params_.phaseInvert = invert]

Presets == {"Clean", "VocalBooth", "Studio", "Cathedral", "Custom"}

PresetValues ==
    [ Clean      |-> [wetDryMix |-> 0, decayTime |-> 1, preDelay |-> 0, crossFeed |-> 0,
                      roomSize |-> 0, density |-> 0, highFreqDamping |-> 0,
                      bypass |-> TRUE],
      VocalBooth |-> [wetDryMix |-> 18, decayTime |-> 9, preDelay |-> 8, crossFeed |-> 30,
                      roomSize |-> 35, density |-> 70, highFreqDamping |-> 30,
                      bypass |-> FALSE],
      Studio     |-> [wetDryMix |-> 40, decayTime |-> 17, preDelay |-> 15, crossFeed |-> 50,
                      roomSize |-> 60, density |-> 85, highFreqDamping |-> 45,
                      bypass |-> FALSE],
      Cathedral  |-> [wetDryMix |-> 65, decayTime |-> 28, preDelay |-> 25, crossFeed |-> 70,
                      roomSize |-> 85, density |-> 60, highFreqDamping |-> 60,
                      bypass |-> FALSE] ]

ENG_applyPresetParameters(e, preset) ==
    IF preset = "Custom" THEN [e EXCEPT !.params_.bypass = FALSE]
    ELSE [e EXCEPT !.params_ =
            [p \in DOMAIN e.params_ |->
                IF p \in DOMAIN PresetValues[preset]
                THEN PresetValues[preset][p] ELSE e.params_[p]]]

\* setPreset, were it to reset the reverb as well
ENG_setPreset_resetting(e, preset) ==
    [ENG_applyPresetParameters([e EXCEPT !.currentPreset_ = preset], preset)
        EXCEPT !.fdnReverb_ = IF @ = Null THEN @ ELSE FDN_reset(@)]

ENG_setPreset(e, preset) ==
    ENG_applyPresetParameters([e EXCEPT !.currentPreset_ = preset], preset)

\* StereoEnhancer(): its temp buffers stay empty until initialize() is called
StereoEnhancer ==
    [ enabled_        |-> TRUE,
      tempBufferSize  |-> 0,
      crossFeedAmount |-> 0,
      stereoWidth     |-> 100,
      phaseInvert     |-> FALSE ]

ReverbEngine ==
    [ currentPreset_ |-> "Clean",
      sampleRate_    |-> 44100,
      maxBlockSize_  |-> 512,
      initialized_   |-> FALSE,
      params_        |-> Parameters,
      fdnReverb_     |-> Null,
      crossFeed_     |-> Null,
      cpuUsage_      |-> "0" ]

\* ret: "true", "false", or "throw" when vector::resize is given a negative
\* size (std::length_error leaves initialize before initialized_ is set)
ENG_initialize(e, sampleRate, maxBlockSize) ==
    IF sampleRate < MIN_SAMPLE_RATE \/ sampleRate > MAX_SAMPLE_RATE
    THEN [eng |-> e, ret |-> "false"]
    ELSE Let1([e EXCEPT !.sampleRate_ = sampleRate,
                        !.maxBlockSize_ = maxBlockSize,
                        !.fdnReverb_ = FDNReverb(sampleRate, MAX_DELAY_LINES),
                        !.crossFeed_ = StereoEnhancer], LAMBDA e1 :
             IF maxBlockSize < 0
             THEN [eng |-> e1, ret |-> "throw"]
             ELSE [eng |-> [ENG_setPreset(e1, "VocalBooth") EXCEPT !.initialized_ = TRUE],
                   ret |-> "true"])

ENG_reset(e) ==
    IF e.fdnReverb_ # Null THEN [e EXCEPT !.fdnReverb_ = FDN_reset(e.fdnReverb_)] ELSE e

\* A sample of the engine's interface is 0, 1 (the caller's non-zero value,
\* unaltered) or 2 (a value the engine computed; it need not equal the input).
Processed(s) == IF s = 0 THEN 0 ELSE 2

\* dry * (1.0f - wetDryMix) + wet * wetDryMix, wetDryMix in percent
ENG_mix(dry, wet, wetDryMix) ==
    IF wetDryMix = 0 THEN dry
    ELSE IF wetDryMix = 100 THEN Processed(wet)
    ELSE Processed(Mix({dry, wet}))

ENG_mixBlock(dry, wet, wetDryMix) ==
    [i \in DOMAIN dry |-> ENG_mix(dry[i], wet[i], wetDryMix)]

\* processBlock, "Update FDN parameters": the five setters it calls
ENG_updateFDN(e) ==
    Let1(FDN_setDecayTime(e.fdnReverb_, e.params_.decayTime), LAMBDA f1 :
    Let1(FDN_setPreDelay(f1, e.params_.preDelay * e.sampleRate_), LAMBDA f2 :
    Let1(FDN_setRoomSize(f2, e.params_.roomSize), LAMBDA f3 :
    Let1(FDN_setDensity(f3, e.params_.density), LAMBDA f4 :
        FDN_setHighFreqDamping(f4, e.params_.highFreqDamping)))))

\* StereoEnhancer::processBlock copies numSamples floats into its temp
\* buffers; with a temp buffer shorter than that the copy writes outside it.
SE_overruns(se, numSamples) == se.enabled_ /\ numSamples > se.tempBufferSize

SE_processBlock(left, right) ==
    [ left  |-> [i \in DOMAIN left |-> Mix({left[i], right[i]})],
      right |-> [i \in DOMAIN right |-> Mix({left[i], right[i]})] ]

\* the mono branch of processBlock
ENG_processMono(e, f, inputs) ==
    Let1(FDN_processMono(f, inputs[1]), LAMBDA r :
        [ eng     |-> [e EXCEPT !.fdnReverb_ = r.fdn],
          outputs |-> << ENG_mixBlock(inputs[1], r.output, e.params_.wetDryMix) >>,
          path    |-> "mono" ])

\* the stereo branch of processBlock; ub chooses what the out-of-bounds
\* copy inside StereoEnhancer::processBlock does: "crash" or "run"
ENG_processStereo(e, f, inputs, ub) ==
    Let1(FDN_processStereo(f, inputs[1], inputs[2]), LAMBDA r :
        IF e.params_.crossFeed > 0
        THEN Let1([e EXCEPT !.fdnReverb_ = r.fdn,
                            !.crossFeed_.crossFeedAmount = e.params_.crossFeed],
                  LAMBDA e1 :
                 IF SE_overruns(e1.crossFeed_, Len(inputs[1])) /\ ub = "crash"
                 THEN [eng |-> e1, outputs |-> << >>, path |-> "crash"]
                 ELSE Let1(SE_processBlock(r.outputL, r.outputR), LAMBDA se :
                     [ eng     |-> e1,
                       outputs |-> << ENG_mixBlock(inputs[1], se.left, e.params_.wetDryMix),
                                      ENG_mixBlock(inputs[2], se.right, e.params_.wetDryMix) >>,
                       path    |-> "stereo+crossfeed" ]))
        ELSE [ eng     |-> [e EXCEPT !.fdnReverb_ = r.fdn],
               outputs |-> << ENG_mixBlock(inputs[1], r.outputL, e.params_.wetDryMix),
                              ENG_mixBlock(inputs[2], r.outputR, e.params_.wetDryMix) >>,
               path    |-> "stereo" ])

\* "Calculate CPU usage": (processingTime / blockTime) * 100.0 with
\* blockTime = (numSamples / sampleRate_) * 1000.0; a division by 0.0 gives
\* an infinity or a NaN
ENG_cpuUsage(numSamples) == IF numSamples = 0 THEN "nonfinite" ELSE "measured"

ENG_storeCpuUsage(r, numSamples) ==
    IF r.path = "crash" THEN r
    ELSE [r EXCEPT !.eng.cpuUsage_ = ENG_cpuUsage(numSamples)]

\* Heap requests of one setRoomSize call: setupDelayLengths() builds and
\* destroys std::vector<int> lengths; setupEarlyReflections() clear()s the
\* vector of unique_ptr (one delete per filter) and make_unique's one
\* AllPassFilter, with its DelayLine buffer, per stage.
FDN_setRoomSize_heap(f) ==
    [ vectors |-> 1,
      deleted |-> Len(f.earlyReflectionFilters_),
      made    |-> Len(FDN_setupEarlyReflections(f).earlyReflectionFilters_) ]

\* processStereo: std::vector<float> crossFeedL(numSamples), crossFeedR(numSamples)
FDN_processStereo_heap(numSamples) == IF numSamples > 0 THEN 2 ELSE 0

\* number of heap requests (new and delete) of one processBlock call that
\* took the given path
ENG_heapOps(e, inputs, path) ==
    IF path \in {"passthrough", "bypass"} THEN 0
    ELSE Let1(FDN_setRoomSize_heap(e.fdnReverb_), LAMBDA h :
            2 * h.vectors + h.deleted + h.made
              + (IF Len(inputs) = 2 THEN 2 * FDN_processStereo_heap(Len(inputs[1])) ELSE 0))

\* processBlock past the bypass test
ENG_processActive(e, inputs, ub) ==
    Let1(ENG_updateFDN(e), LAMBDA f :
        IF Len(inputs) = 1
        THEN ENG_storeCpuUsage(ENG_processMono(e, f, inputs), Len(inputs[1]))
        ELSE ENG_storeCpuUsage(ENG_processStereo(e, f, inputs, ub), Len(inputs[1])))

\* the bypass branch, were it to write silence
ENG_processBypassed_muted(e, inputs) ==
    [ eng     |-> [e EXCEPT !.cpuUsage_ = "0"],
      outputs |-> [ch \in DOMAIN inputs |-> [i \in DOMAIN inputs[ch] |-> 0]],
      path    |-> "bypass" ]

\* the bypass branch: std::copy of every channel
ENG_processBypassed(e, inputs) ==
    [ eng |-> [e EXCEPT !.cpuUsage_ = "0"], outputs |-> inputs, path |-> "bypass" ]

\* the first branch: std::copy of every channel
ENG_processPassthrough(e, inputs) ==
    [ eng |-> e, outputs |-> inputs, path |-> "passthrough" ]

\* inputs: one sequence of samples per channel, all of the same length
ENG_processBlock(e, inputs, ub) ==
    IF ~e.initialized_ \/ Len(inputs[1]) > e.maxBlockSize_ \/ Len(inputs) > MAX_CHANNELS
    THEN ENG_processPassthrough(e, inputs)
    ELSE IF e.params_.bypass THEN ENG_processBypassed(e, inputs)
    ELSE ENG_processActive(e, inputs, ub)

(***************************************************************************)
(* Each specification drives one object; the other objects stay idle.      *)
(***************************************************************************)
Idle == "idle"

dlvars  == <<dl, dlObs>>
fdnvars == <<fdn, fobs>>
engvars == <<eng, eobs>>
smvars  == <<sm, smObs>>
vars    == <<dl, dlObs, fdn, fobs, eng, eobs, sm, smObs>>

(***************************************************************************)
(* Specification SpecDL: one DelayLine driven through its public methods.  *)
(***************************************************************************)
DLMaxLength == 4

\* Delays offered to setDelay: below 1, whole, fractional, just above a
\* whole number, at and above maxLength - 1.
DelayArgs ==
    { 0, Q, Q + 1, Q + Q \div 2, 2 * Q, 2 * Q + 2,
      (DLMaxLength - 1) * Q, DLMaxLength * Q }

NoAccess == [write |-> 0, read1 |-> 0, read2 |-> 0, calls |-> 0]

InitDL ==
    /\ dl = DelayLine(DLMaxLength)
    /\ dlObs = NoAccess
    /\ fdn = Idle /\ fobs = Idle
    /\ eng = Idle /\ eobs = Idle
    /\ sm = Idle /\ smObs = Idle

DLSetDelay ==
    /\ \E a \in DelayArgs : dl' = DL_setDelay(dl, a)
    /\ UNCHANGED <<dlObs, fdnvars, engvars, smvars>>

DLClear ==
    /\ dl' = DL_clear(dl)
    /\ UNCHANGED <<dlObs, fdnvars, engvars, smvars>>

DLProcess ==
    /\ \E x \in Sample :
          \E r \in {DL_process(dl, x)} :
              /\ dl' = r.line
              /\ dlObs' = [write |-> r.write, read1 |-> r.read1,
                           read2 |-> r.read2, calls |-> 1]
    /\ UNCHANGED <<fdnvars, engvars, smvars>>

NextDL == DLSetDelay \/ DLClear \/ DLProcess

SpecDL == InitDL /\ [][NextDL]_vars

(* C9: every buffer access of DelayLine::process - the write at the cursor *)
(* and the two interpolation reads - uses an index in 0 .. maxLength_ - 1. *)
C9_AccessInBounds ==
    dlObs.calls = 1 =>
        /\ dlObs.write \in 0 .. (dl.maxLength_ - 1)
        /\ dlObs.read1 \in 0 .. (dl.maxLength_ - 1)
        /\ dlObs.read2 \in 0 .. (dl.maxLength_ - 1)

(***************************************************************************)
(* Specification SpecFDN: one FDNReverb driven through its public methods. *)
(***************************************************************************)
MaxBlock == 2
MaxCalls == 4

FDNSampleRates == {48000}
FDNLineCounts == {8}

\* room sizes (1/100): below range, and three sizes 0.04 or 0.08 away from
\* the constructor's 0.5 and from each other
RoomSizeArgs == {-10, 46, 54, 58}
\* decay times (1/10 s): below range, and the longest one the engine offers
DecayArgs == {0, 80}
DampingArgs == {0, 100}

\* blocks of 1 .. MaxBlock samples, silent or not
Blocks == UNION { [1 .. n -> Sample] : n \in 1 .. MaxBlock }
ConstantBlocks == { b \in Blocks : \A i \in DOMAIN b : b[i] = b[1] }
\* a block of one sample that sounds and the longest one, silent
FDNBlocks ==
    { b \in ConstantBlocks : (Len(b) = 1 /\ b[1] = 1) \/ (Len(b) = MaxBlock /\ b[1] = 0) }

Cursors(f) == [k \in DOMAIN f.delayLines_ |-> f.delayLines_[k].writeIndex_]

LineIsZero(d) == \A i \in DOMAIN d.buffer_ : d.buffer_[i] = 0

\* every delay line the reverb owns holds zeros only
AllLinesZero(f) ==
    /\ \A k \in DOMAIN f.delayLines_ : LineIsZero(f.delayLines_[k])
    /\ \A k \in DOMAIN f.diffusionFilters_ : LineIsZero(f.diffusionFilters_[k].delay_)
    /\ \A k \in DOMAIN f.earlyReflectionFilters_ :
           LineIsZero(f.earlyReflectionFilters_[k].delay_)
    /\ \A k \in DOMAIN f.modulatedDelays_ : LineIsZero(f.modulatedDelays_[k].delay_)
    /\ LineIsZero(f.preDelayLine_)
    /\ LineIsZero(f.crossFeedProcessor_.crossDelayL_)
    /\ LineIsZero(f.crossFeedProcessor_.crossDelayR_)

IsSilent(block) == \A i \in DOMAIN block : block[i] = 0

\* What a call found on entry and what checkAndFlushBuffers left behind;
\* quiet: reset() was called and every block processed since was silent;
\* output: the wet block(s) the last process call wrote.
FObs(op, f, arg, n, scheduled) ==
    [ op          |-> op,
      calls       |-> fobs.calls + 1,
      arg         |-> arg,
      numSamples  |-> n,
      cursors     |-> Cursors(f),
      roomSize    |-> f.roomSize_,
      lastRoom    |-> f.lastRoomSize_,
      flag        |-> f.needsBufferFlush_,
      dirty       |-> ~AllLinesZero(f),
      startClean  |-> AllLinesZero(FDN_checkAndFlushBuffers(f)),
      startSame   |-> FDN_checkAndFlushBuffers(f) = f,
      scheduled   |-> scheduled,
      flushedSize |-> IF op \in {"processMono", "processStereo"}
                         /\ (f.needsBufferFlush_
                             \/ Abs(f.roomSize_ - f.lastRoomSize_) > ROOM_SIZE_CHANGE_THRESHOLD)
                      THEN f.roomSize_ ELSE fobs.flushedSize,
      quiet       |-> IF op = "reset" THEN TRUE
                      ELSE IF op = "processMono" THEN fobs.quiet /\ IsSilent(arg)
                      ELSE IF op = "processStereo"
                           THEN fobs.quiet /\ IsSilent(arg[1]) /\ IsSilent(arg[2])
                           ELSE fobs.quiet,
      output      |-> << >> ]

InitFDN ==
    /\ \E sr \in FDNSampleRates, n \in FDNLineCounts : fdn = FDNReverb(sr, n)
    /\ fobs = [ op |-> "new", calls |-> 0, arg |-> 0, numSamples |-> 0, cursors |-> << >>,
                roomSize |-> 50, lastRoom |-> 50, flag |-> FALSE, dirty |-> FALSE,
                startClean |-> TRUE, startSame |-> TRUE, scheduled |-> FALSE,
                flushedSize |-> 50, quiet |-> FALSE, output |-> << >> ]
    /\ dl = Idle /\ dlObs = Idle
    /\ eng = Idle /\ eobs = Idle
    /\ sm = Idle /\ smObs = Idle

FSetRoomSize ==
    /\ fobs.calls < MaxCalls
    /\ \E x \in RoomSizeArgs :
          /\ fdn' = FDN_setRoomSize(fdn, x)
          /\ fobs' = FObs("setRoomSize", fdn, x, 0,
                          fobs.scheduled
                              \/ Abs(StdClamp(x, 0, 100) - fdn.roomSize_)
                                     > ROOM_SIZE_CHANGE_THRESHOLD)
    /\ UNCHANGED <<dlvars, engvars, smvars>>

FSetDecayTime ==
    /\ fobs.calls < MaxCalls
    /\ \E x \in DecayArgs :
          /\ fdn' = FDN_setDecayTime(fdn, x)
          /\ fobs' = FObs("setDecayTime", fdn, x, 0, fobs.scheduled)
    /\ UNCHANGED <<dlvars, engvars, smvars>>

FSetHighFreqDamping ==
    /\ fobs.calls < MaxCalls
    /\ \E x \in DampingArgs :
          /\ fdn' = FDN_setHighFreqDamping(fdn, x)
          /\ fobs' = FObs("setHighFreqDamping", fdn, x, 0, fobs.scheduled)
    /\ UNCHANGED <<dlvars, engvars, smvars>>

FSetLowFreqDamping ==
    /\ fobs.calls < MaxCalls
    /\ \E x \in DampingArgs :
          /\ fdn' = FDN_setLowFreqDamping(fdn, x)
          /\ fobs' = FObs("setLowFreqDamping", fdn, x, 0, fobs.scheduled)
    /\ UNCHANGED <<dlvars, engvars, smvars>>

FReset ==
    /\ fobs.calls < MaxCalls
    /\ fdn' = FDN_reset(fdn)
    /\ fobs' = FObs("reset", fdn, 0, 0, fobs.scheduled)
    /\ UNCHANGED <<dlvars, engvars, smvars>>

FProcessMono ==
    /\ fobs.calls < MaxCalls
    /\ \E b \in FDNBlocks :
          \E r \in {FDN_processMono(fdn, b)} :
             /\ fdn' = r.fdn
             /\ fobs' = [FObs("processMono", fdn, b, Len(b), FALSE)
                            EXCEPT !.output = <<r.output>>]
    /\ UNCHANGED <<dlvars, engvars, smvars>>

FProcessStereo ==
    /\ fobs.calls < MaxCalls
    /\ \E bl \in FDNBlocks, br \in FDNBlocks :
          /\ Len(bl) = Len(br)
          /\ \E r \in {FDN_processStereo(fdn, bl, br)} :
                /\ fdn' = r.fdn
                /\ fobs' = [FObs("processStereo", fdn, <<bl, br>>, Len(bl), FALSE)
                               EXCEPT !.output = <<r.outputL, r.outputR>>]
    /\ UNCHANGED <<dlvars, engvars, smvars>>

NextFDN ==
    \/ FSetRoomSize
    \/ FSetDecayTime
    \/ FSetHighFreqDamping
    \/ FSetLowFreqDamping
    \/ FReset
    \/ FProcessMono
    \/ FProcessStereo

SpecFDN == InitFDN /\ [][NextFDN]_vars

IsProcess(op) == op \in {"processMono", "processStereo"}

(* C7 (first part): a setRoomSize whose clamped value differs from the     *)
(* previous room size by more than 0.05 schedules a flush, the flush stays *)
(* scheduled until a block is processed, and that block starts with every  *)
(* delay line zeroed.                                                      *)
C7_FlushScheduledAndDone ==
    /\ (fobs.op = "setRoomSize"
            /\ Abs(fdn.roomSize_ - fobs.roomSize) > ROOM_SIZE_CHANGE_THRESHOLD)
           => fdn.needsBufferFlush_
    /\ fobs.scheduled => fdn.needsBufferFlush_
    /\ (IsProcess(fobs.op) /\ fobs.flag) => fobs.startClean

(* C7 as stated: the first part, and a setRoomSize to a value at most 0.05 *)
(* away from the size at the last flush schedules no flush.                *)
C7_NoFlushNearLastFlushed ==
    /\ C7_FlushScheduledAndDone
    /\ (fobs.op = "setRoomSize" /\ ~fobs.flag
            /\ Abs(fdn.roomSize_ - fobs.flushedSize) <= ROOM_SIZE_CHANGE_THRESHOLD)
           => ~fdn.needsBufferFlush_

(* C7 amended: the first part; a setRoomSize to a value at most 0.05 away  *)
(* from the previous room size schedules no flush; and a block that finds  *)
(* no flush scheduled and the room size at most 0.05 away from             *)
(* lastRoomSize_ leaves every buffer as it found it.                       *)
C7_NoFlushNearPrevious ==
    /\ C7_FlushScheduledAndDone
    /\ (fobs.op = "setRoomSize" /\ ~fobs.flag
            /\ Abs(fdn.roomSize_ - fobs.roomSize) <= ROOM_SIZE_CHANGE_THRESHOLD)
           => ~fdn.needsBufferFlush_
    /\ (IsProcess(fobs.op) /\ ~fobs.flag
            /\ Abs(fobs.roomSize - fobs.lastRoom) <= ROOM_SIZE_CHANGE_THRESHOLD)
           => fobs.startSame

\* a scheduled flush met delay lines that held signal and zeroed them
C7_Witness ==
    /\ IsProcess(fobs.op)
    /\ fobs.flag
    /\ fobs.dirty
    /\ fobs.startClean

(* C8: when a block call of numSamples samples returns, the write cursor   *)
(* of every FDN delay line is numSamples positions (modulo the buffer      *)
(* length) past where it was when the call began.                          *)
C8_CursorsAdvanceByNumSamples ==
    IsProcess(fobs.op) =>
        \A k \in DOMAIN fdn.delayLines_ :
            fdn.delayLines_[k].writeIndex_
                = (fobs.cursors[k] + fobs.numSamples) % fdn.delayLines_[k].maxLength_

(* C10: after every recomputation of the feedback matrix (setDecayTime,    *)
(* reset) the scalar gain on the orthogonal matrix is at most 0.97 and is  *)
(* the gain computed from the current parameters alone, whatever gains     *)
(* earlier recomputations applied.                                         *)
C10_GainCapped ==
    fobs.op \in {"setDecayTime", "reset"} =>
        /\ fdn.feedbackMatrix_ <= 9700
        /\ fdn.feedbackMatrix_
               = StdMin(FDN_freqWeightedGain(fdn), FDN_stabilityLimit(fdn))

\* a recomputation where the frequency-weighted gain exceeded the cap, after
\* the constructor's recomputation had applied a smaller gain
C10_Witness ==
    /\ fobs.op = "setDecayTime"
    /\ FDN_freqWeightedGain(fdn) > 9700
    /\ fdn.feedbackMatrix_ = 9700

(***************************************************************************)
(* Specification Spec: one ReverbEngine driven through its public calls    *)
(***************************************************************************)
MaxEngineCalls == 3

\* <<sampleRate, maxBlockSize>>: a rate below and above the range, a block
\* size below zero and zero, and a valid pair
InitializeArgs ==
    { <<22050, 2>>, <<192000, 2>>, <<48000, -1>>, <<48000, 0>>, <<48000, 2>> }

\* below the range, inside it (and off every default and preset), above it;
\* every setter clamps with the same function, one of them is given a NaN
SetterArgs(p) ==
    { ParamRange[p][1] - 1, (ParamRange[p][1] + ParamRange[p][2]) \div 2 + 3,
      ParamRange[p][2] + 1 } \cup (IF p = "wetDryMix" THEN {NaN} ELSE {})

\* mono and stereo blocks, empty blocks, a block longer than maxBlockSize_,
\* three channels
EngineInputs ==
    { << <<1>> >>, << <<0, 1>> >>, << <<1>>, <<1>> >>, << <<1, 0>>, <<0, 0>> >>,
      << << >> >>, << << >>, << >> >>,
      << <<1, 1, 1>> >>, << <<1>>, <<0>>, <<1>> >> }

\* what a write outside a buffer may do
UBOutcomes(inputs) == IF Len(inputs) = 2 THEN {"crash", "run"} ELSE {"run"}

EObs(op, arg, ret, inputs, outputs, path, e) ==
    [ op                 |-> op,
      arg                |-> arg,
      ret                |-> ret,
      inputs             |-> inputs,
      outputs            |-> outputs,
      path               |-> path,
      bypassAtStart      |-> e.params_.bypass,
      initializedAtStart |-> e.initialized_,
      heap               |-> IF op = "processBlock" THEN ENG_heapOps(e, inputs, path) ELSE 0,
      calls              |-> eobs.calls + 1 ]

Init ==
    /\ eng = ReverbEngine
    /\ eobs = [ op |-> "ReverbEngine", arg |-> << >>, ret |-> "", inputs |-> << >>,
                outputs |-> << >>, path |-> "", bypassAtStart |-> FALSE,
                initializedAtStart |-> FALSE, heap |-> 0, calls |-> 0 ]
    /\ dl = Idle /\ dlObs = Idle /\ fdn = Idle /\ fobs = Idle
    /\ sm = Idle /\ smObs = Idle

EngineLive == eobs.calls < MaxEngineCalls /\ eobs.path # "crash"

EInitialize ==
    /\ EngineLive
    /\ \E args \in InitializeArgs :
         \E r \in {ENG_initialize(eng, args[1], args[2])} :
            /\ eng' = r.eng
            /\ eobs' = EObs("initialize", args, r.ret,
                            << >>, << >>, "", eng)
    /\ UNCHANGED <<dlvars, fdnvars, smvars>>

EProcessBlock ==
    /\ EngineLive
    /\ \E inputs \in EngineInputs :
         \E ub \in UBOutcomes(inputs) :
            \E r \in {ENG_processBlock(eng, inputs, ub)} :
               /\ eng' = r.eng
               /\ eobs' = EObs("processBlock", << >>, "", inputs, r.outputs, r.path, eng)
    /\ UNCHANGED <<dlvars, fdnvars, smvars>>

ESetFloat ==
    /\ EngineLive
    /\ \E p \in FloatParams :
         \E value \in SetterArgs(p) :
            /\ eng' = ENG_setFloat(eng, p, value)
            /\ eobs' = EObs("setFloat", <<p, value>>, "", << >>, << >>, "", eng)
    /\ UNCHANGED <<dlvars, fdnvars, smvars>>

ESetBypass ==
    /\ EngineLive
    /\ \E bypass \in BOOLEAN :
            /\ eng' = ENG_setBypass(eng, bypass)
            /\ eobs' = EObs("setBypass", <<bypass>>, "", << >>, << >>, "", eng)
    /\ UNCHANGED <<dlvars, fdnvars, smvars>>

ESetPhaseInvert ==
    /\ EngineLive
    /\ \E invert \in BOOLEAN :
            /\ eng' = ENG_setPhaseInvert(eng, invert)
            /\ eobs' = EObs("setPhaseInvert", <<invert>>, "", << >>, << >>, "", eng)
    /\ UNCHANGED <<dlvars, fdnvars, smvars>>

ESetPreset ==
    /\ EngineLive
    /\ \E preset \in Presets :
            /\ eng' = ENG_setPreset(eng, preset)
            /\ eobs' = EObs("setPreset", <<preset>>, "", << >>, << >>, "", eng)
    /\ UNCHANGED <<dlvars, fdnvars, smvars>>

EReset ==
    /\ EngineLive
    /\ eng' = ENG_reset(eng)
    /\ eobs' = EObs("reset", << >>, "", << >>, << >>, "", eng)
    /\ UNCHANGED <<dlvars, fdnvars, smvars>>

Next ==
    \/ EInitialize
    \/ EProcessBlock
    \/ ESetFloat
    \/ ESetBypass
    \/ ESetPhaseInvert
    \/ ESetPreset
    \/ EReset

Spec == Init /\ [][Next]_vars


(***************************************************************************)
(* Properties of the ReverbEngine (specification Spec)                     *)
(***************************************************************************)
ActivePaths == {"mono", "stereo", "stereo+crossfeed"}

\* C1: a processBlock call that finds bypass set writes to every output
\* channel exactly the samples of the matching input channel, for one or two
\* channels, every block length and whatever calls came before.
C1_BypassCopiesInput ==
    (eobs.op = "processBlock" /\ eobs.bypassAtStart) => eobs.outputs = eobs.inputs

\* an initialised engine with bypass set was given a stereo block with a
\* non-zero sample and took the bypass branch
C1_Witness ==
    /\ eobs.op = "processBlock"
    /\ eobs.bypassAtStart
    /\ eobs.initializedAtStart
    /\ eobs.path = "bypass"
    /\ Len(eobs.inputs) = 2
    /\ Len(eobs.inputs[1]) > 0
    /\ eobs.inputs[1][1] = 1
    /\ eobs.outputs = eobs.inputs

\* C2: initialize with a sample rate outside [44100, 96000] or with a
\* maxBlockSize of zero or less returns false and leaves the engine
\* uninitialised; a processBlock on an uninitialised engine copies its input.
C2_InvalidInitializeFails ==
    /\ ( /\ eobs.op = "initialize"
         /\ \/ eobs.arg[1] < MIN_SAMPLE_RATE
            \/ eobs.arg[1] > MAX_SAMPLE_RATE
            \/ eobs.arg[2] <= 0 )
       => (eobs.ret = "false" /\ ~eng.initialized_)
    /\ (eobs.op = "processBlock" /\ ~eobs.initializedAtStart)
       => eobs.outputs = eobs.inputs

\* C3: every float target is inside its declared range in every state, and
\* a setter given a number outside the range stores the nearest end of it
\* (a number inside the range is stored as it is).
C3_TargetsInRange ==
    /\ \A p \in FloatParams :
          /\ ParamRange[p][1] <= eng.params_[p]
          /\ eng.params_[p] <= ParamRange[p][2]
    /\ (eobs.op = "setFloat" /\ eobs.arg[2] # NaN) =>
          eng.params_[eobs.arg[1]] =
             (IF eobs.arg[2] < ParamRange[eobs.arg[1]][1] THEN ParamRange[eobs.arg[1]][1]
              ELSE IF eobs.arg[2] > ParamRange[eobs.arg[1]][2]
                   THEN ParamRange[eobs.arg[1]][2]
                   ELSE eobs.arg[2])

\* a setter was given a value above its range and stored the upper end
C3_Witness ==
    /\ eobs.op = "setFloat"
    /\ eobs.arg[2] # NaN
    /\ eobs.arg[2] > ParamRange[eobs.arg[1]][2]
    /\ eng.params_[eobs.arg[1]] = ParamRange[eobs.arg[1]][2]

\* C4: after a processBlock that was not bypassed, the DSP objects hold the
\* value of every exposed target as it stood when the block began: decay,
\* pre-delay, room size, density and HF damping, and also LF damping, stereo
\* width, phase invert and cross-feed.
C4_ParametersPushed ==
    (eobs.op = "processBlock" /\ eobs.path \in ActivePaths) =>
        /\ eng.fdnReverb_.decayTime_ = eng.params_.decayTime
        /\ eng.fdnReverb_.preDelay_ = eng.params_.preDelay * eng.sampleRate_
        /\ eng.fdnReverb_.roomSize_ = eng.params_.roomSize
        /\ eng.fdnReverb_.density_ = eng.params_.density
        /\ eng.fdnReverb_.highFreqDamping_ = eng.params_.highFreqDamping
        /\ eng.fdnReverb_.lowFreqDamping_ = eng.params_.lowFreqDamping
        /\ \/ eng.crossFeed_.stereoWidth = eng.params_.stereoWidth
           \/ eng.fdnReverb_.crossFeedProcessor_.stereoWidth_ = eng.params_.stereoWidth
        /\ \/ eng.crossFeed_.phaseInvert = eng.params_.phaseInvert
           \/ eng.fdnReverb_.crossFeedProcessor_.phaseInvert_ = eng.params_.phaseInvert
        /\ \/ eng.crossFeed_.crossFeedAmount = eng.params_.crossFeed
           \/ eng.fdnReverb_.crossFeedProcessor_.crossFeedAmount_ = eng.params_.crossFeed

(***************************************************************************)
(* The three parameter smoothers.  Values are in units of 10^-6; products  *)
(* are rounded down to the unit.  The time constants are constructor       *)
(* arguments; the model takes the shortest ones that still smooth:         *)
(* smoothingCoefficient_ = 1/2, linearStep_ = 1/2 (two steps),             *)
(* sCurveDelta_ = 1/2.                                                     *)
(***************************************************************************)
ChangeEps == 1
SnapEps == 10

SmoothingTypes == {"Linear", "Exponential", "SCurve", "Logarithmic"}

\* the integer part of the square root: exp((log a + log b) / 2) for x = a * b
ISqrt(x) == CHOOSE r \in 0 .. x : r * r <= x /\ (r + 1) * (r + 1) > x

\* current * 2 + target * (1 - 2): a coefficient outside [0, 1]
Blend_outside(current, target) == current * 2 - target

\* current * smoothingCoefficient_ + target * (1.0f - smoothingCoefficient_)
Blend(current, target) == (current + target) \div 2

ParameterSmoother(initialValue, type) ==
    [ currentValue_  |-> initialValue,
      targetValue_   |-> initialValue,
      smoothingType_ |-> type,
      isSmoothing_   |-> FALSE,
      remainingSteps_ |-> 0,
      sCurvePhase_   |-> 0,
      ctl            |-> [pc |-> "idle", value |-> 0, previousTarget |-> 0],
      audio          |-> [pc |-> "idle", target |-> 0] ]

\* setTarget, first statement: targetValue_.exchange(value)
PS_exchange(s, value) ==
    [s EXCEPT !.targetValue_ = value,
              !.ctl = [pc |-> "compare", value |-> value,
                       previousTarget |-> s.targetValue_]]

\* setTarget, the rest: start smoothing if the value changed
PS_startSmoothing(s) ==
    IF Abs(s.ctl.value - s.ctl.previousTarget) > ChangeEps
    THEN [s EXCEPT !.isSmoothing_ = TRUE,
                   !.remainingSteps_ = IF s.smoothingType_ = "Linear" THEN 2 ELSE @,
                   !.sCurvePhase_ = IF s.smoothingType_ = "SCurve" THEN 0 ELSE @,
                   !.ctl.pc = "idle"]
    ELSE [s EXCEPT !.ctl.pc = "idle"]

\* getCurrentValue: the switch on smoothingType_, with target just loaded;
\* sCurvePhase_ counts steps of sCurveDelta_
PS_advance(s, target) ==
    CASE s.smoothingType_ = "Exponential" ->
            [s EXCEPT !.currentValue_ = Blend(@, target)]
      [] s.smoothingType_ = "Linear" ->
            IF s.remainingSteps_ > 0
            THEN [s EXCEPT !.currentValue_ = @ + (target - @) \div 2,
                           !.remainingSteps_ = @ - 1]
            ELSE [s EXCEPT !.currentValue_ = target]
      [] s.smoothingType_ = "SCurve" ->
            IF s.sCurvePhase_ < 2
            THEN [s EXCEPT !.currentValue_ =
                               @ + ((target - @) * s.sCurvePhase_ * s.sCurvePhase_
                                      * (3 - s.sCurvePhase_)) \div 8,
                           !.sCurvePhase_ = @ + 1]
            ELSE [s EXCEPT !.currentValue_ = target]
      [] s.smoothingType_ = "Logarithmic" ->
            IF target > 0 /\ s.currentValue_ > 0
            THEN [s EXCEPT !.currentValue_ = ISqrt(@ * target)]
            ELSE [s EXCEPT !.currentValue_ = Blend(@, target)]

\* getCurrentValue: "close enough to stop smoothing"
PS_snap(s) ==
    IF Abs(s.currentValue_ - s.audio.target) < SnapEps
    THEN [s EXCEPT !.currentValue_ = s.audio.target, !.isSmoothing_ = FALSE,
                   !.audio.pc = "idle"]
    ELSE [s EXCEPT !.audio.pc = "idle"]

\* SmoothParameter::getNextValue and ReverbEngine::ParameterSmoother::process:
\* current += smoothingCoeff_ * (target - current), smoothingCoeff_ = 1/2
SP_getNextValue(current, target) == current + (target - current) \div 2

(***************************************************************************)
(* Specification SpecSmooth: one smoother; a control thread writes targets *)
(* while the audio thread asks for values.  A ParameterSmoother call is    *)
(* split where the other thread can run in between.                        *)
(***************************************************************************)
MaxWrites == 2

InitialValue == 16
\* far below, next to the initial value (a change of 10^-6), far above
TargetArgs == {-48, 17, 64}

SmoothParameter(initialValue) ==
    [targetValue_ |-> initialValue, currentValue_ |-> initialValue]

\* calls: the parity of the getCurrentValue calls that returned at once
SObs(op, kind, value, before, target, out) ==
    [ op     |-> op,
      kind   |-> kind,
      lo     |-> IF value < smObs.lo THEN value ELSE smObs.lo,
      hi     |-> IF value > smObs.hi THEN value ELSE smObs.hi,
      writes |-> smObs.writes + (IF op = "write" THEN 1 ELSE 0),
      before |-> before,
      target |-> target,
      out    |-> out,
      calls  |-> smObs.calls ]

InitSmooth ==
    /\ \E kind \in SmoothingTypes \cup {"SmoothParameter", "EngineSmoother"} :
          /\ sm = IF kind \in SmoothingTypes THEN ParameterSmoother(InitialValue, kind)
                  ELSE SmoothParameter(InitialValue)
          /\ smObs = [ op |-> "new", kind |-> kind, lo |-> InitialValue,
                       hi |-> InitialValue, writes |-> 0, before |-> InitialValue,
                       target |-> InitialValue, out |-> InitialValue,
                       calls |-> 0 ]
    /\ dl = Idle /\ dlObs = Idle /\ fdn = Idle /\ fobs = Idle
    /\ eng = Idle /\ eobs = Idle

IsPS == smObs.kind \in SmoothingTypes

\* ParameterSmoother::setTarget up to the exchange
SSetTarget ==
    /\ IsPS /\ sm.ctl.pc = "idle" /\ smObs.writes < MaxWrites
    /\ \E value \in TargetArgs :
          /\ sm' = PS_exchange(sm, value)
          /\ smObs' = SObs("write", smObs.kind, value, smObs.before, smObs.target, smObs.out)
    /\ UNCHANGED <<dlvars, fdnvars, engvars>>

\* ParameterSmoother::setTarget after the exchange
SStartSmoothing ==
    /\ IsPS /\ sm.ctl.pc = "compare"
    /\ sm' = PS_startSmoothing(sm)
    /\ smObs' = [smObs EXCEPT !.op = "start"]
    /\ UNCHANGED <<dlvars, fdnvars, engvars>>

\* ParameterSmoother::getCurrentValue: the test of isSmoothing_
SGetEnter ==
    /\ IsPS /\ sm.audio.pc = "idle"
    /\ IF sm.isSmoothing_
       THEN /\ sm' = [sm EXCEPT !.audio.pc = "load"]
            /\ smObs' = [smObs EXCEPT !.op = "enter"]
       ELSE /\ sm' = sm
            /\ smObs' = [smObs EXCEPT !.op = "return", !.out = sm.currentValue_,
                                      !.calls = 1 - @]
    /\ UNCHANGED <<dlvars, fdnvars, engvars>>

\* ParameterSmoother::getCurrentValue: targetValue_.load() and the switch
SGetAdvance ==
    /\ IsPS /\ sm.audio.pc = "load"
    /\ sm' = [PS_advance(sm, sm.targetValue_) EXCEPT
                 !.audio = [pc |-> "check", target |-> sm.targetValue_]]
    /\ smObs' = [smObs EXCEPT !.op = "step", !.before = sm.currentValue_,
                              !.target = sm.targetValue_]
    /\ UNCHANGED <<dlvars, fdnvars, engvars>>

\* ParameterSmoother::getCurrentValue: the closeness test and the return
SGetSnap ==
    /\ IsPS /\ sm.audio.pc = "check"
    /\ \E s \in {PS_snap(sm)} :
          /\ sm' = s
          /\ smObs' = [smObs EXCEPT !.op = "step", !.before = sm.currentValue_,
                                    !.target = sm.audio.target,
                                    !.out = s.currentValue_]
    /\ UNCHANGED <<dlvars, fdnvars, engvars>>

\* SmoothParameter::setValue
SPSetValue ==
    /\ smObs.kind = "SmoothParameter" /\ smObs.writes < MaxWrites
    /\ \E value \in TargetArgs :
          /\ sm' = [sm EXCEPT !.targetValue_ = value]
          /\ smObs' = SObs("write", smObs.kind, value, smObs.before, smObs.target, smObs.out)
    /\ UNCHANGED <<dlvars, fdnvars, engvars>>

\* SmoothParameter::getNextValue
SPGetNextValue ==
    /\ smObs.kind = "SmoothParameter"
    /\ \E next \in {SP_getNextValue(sm.currentValue_, sm.targetValue_)} :
          /\ sm' = [sm EXCEPT !.currentValue_ = next]
          /\ smObs' = [smObs EXCEPT !.op = "step", !.before = sm.currentValue_,
                                    !.target = sm.targetValue_, !.out = next]
    /\ UNCHANGED <<dlvars, fdnvars, engvars>>

\* ReverbEngine::ParameterSmoother::process(target, current): the caller
\* passes the target with every step
EPProcess ==
    /\ smObs.kind = "EngineSmoother"
    /\ \E target \in IF smObs.writes < MaxWrites THEN TargetArgs \cup {sm.targetValue_}
                     ELSE {sm.targetValue_} :
         \E next \in {SP_getNextValue(sm.currentValue_, target)} :
          /\ sm' = [targetValue_ |-> target, currentValue_ |-> next]
          /\ smObs' = [SObs(IF target = sm.targetValue_ THEN "step" ELSE "write",
                            smObs.kind, target, sm.currentValue_, target, next)
                         EXCEPT !.op = "step"]
    /\ UNCHANGED <<dlvars, fdnvars, engvars>>

NextSmooth ==
    \/ SSetTarget
    \/ SStartSmoothing
    \/ SGetEnter
    \/ SGetAdvance
    \/ SGetSnap
    \/ SPSetValue
    \/ SPGetNextValue
    \/ EPProcess

SpecSmooth == InitSmooth /\ [][NextSmooth]_vars

\* a setTarget that has begun returns, and the audio thread keeps calling
SpecSmoothFair ==
    /\ SpecSmooth
    /\ WF_vars(SStartSmoothing)
    /\ WF_vars(SGetEnter \/ SGetAdvance \/ SGetSnap)

\* C5: whenever the control thread is outside setTarget, the value of a
\* ParameterSmoother whose audio thread keeps calling getCurrentValue
\* eventually equals the target last written (targets are written finitely
\* often, so this is the target v of the last setTarget(v)).
C5_ReachesTarget ==
    (IsPS /\ sm.ctl.pc = "idle") ~> (sm.currentValue_ = sm.targetValue_)

\* C6: every value a smoother returns lies between the least and the
\* greatest of its initial value and the targets written so far, and every
\* step leaves the value between where it was and the target the step used.
C6_BoundedMonotone ==
    /\ smObs.lo <= smObs.out /\ smObs.out <= smObs.hi
    /\ smObs.lo <= sm.currentValue_ /\ sm.currentValue_ <= smObs.hi
    /\ smObs.op = "step" =>
          \/ smObs.before <= sm.currentValue_ /\ sm.currentValue_ <= smObs.target
          \/ smObs.target <= sm.currentValue_ /\ sm.currentValue_ <= smObs.before

\* after two target writes an exponential smoother has stepped strictly
\* between its old value and the target
C6_Witness ==
    /\ smObs.kind = "Exponential"
    /\ smObs.op = "step"
    /\ smObs.writes = 2
    /\ sm.currentValue_ # smObs.before
    /\ sm.currentValue_ # smObs.target

C12_EmptyBlockChangesNothing ==
    [][(eobs'.calls # eobs.calls /\ eobs'.op = "processBlock"
            /\ Len(eobs'.inputs[1]) = 0) => eng' = eng]_vars

\* C13: setPreset(p) with p one of Clean, VocalBooth, Studio, Cathedral
\* leaves wetDryMix, decayTime, preDelay, crossFeed, roomSize, density and
\* highFreqDamping at the values of p's row (Clean 0 %, 0.1 s, 0 ms, 0, 0, 0,
\* 0; Vocal Booth 18 %, 0.9 s, 8 ms, 0.3, 0.35, 70, 30; Studio 40 %, 1.7 s,
\* 15 ms, 0.5, 0.60, 85, 45; Cathedral 65 %, 2.8 s, 25 ms, 0.7, 0.85, 60, 60),
\* sets bypass exactly for Clean, and changes nothing else: the other
\* parameter cells, the FDN with its delay lines, filters and matrix, the
\* cross-feed stage and the engine's configuration stay as they were.
C13_NamedPresetWritesTargets ==
    [][(eobs'.calls # eobs.calls /\ eobs'.op = "setPreset" /\ eobs'.arg[1] # "Custom") =>
        LET row == [ Clean      |-> <<0, 1, 0, 0, 0, 0, 0>>,
                     VocalBooth |-> <<18, 9, 8, 30, 35, 70, 30>>,
                     Studio     |-> <<40, 17, 15, 50, 60, 85, 45>>,
                     Cathedral  |-> <<65, 28, 25, 70, 85, 60, 60>> ][eobs'.arg[1]]
        IN  /\ << eng'.params_.wetDryMix, eng'.params_.decayTime, eng'.params_.preDelay,
                  eng'.params_.crossFeed, eng'.params_.roomSize, eng'.params_.density,
                  eng'.params_.highFreqDamping >> = row
            /\ eng'.params_.bypass = (eobs'.arg[1] = "Clean")
            /\ eng' = [eng EXCEPT !.params_ = eng'.params_,
                                  !.currentPreset_ = eobs'.arg[1]]
            /\ \A q \in {"lowFreqDamping", "stereoWidth", "phaseInvert"} :
                   eng'.params_[q] = eng.params_[q]]_vars

\* a Studio preset applied to an initialised engine that has processed a block
C13_Witness ==
    /\ eobs.op = "setPreset" /\ eobs.arg = <<"Studio">>
    /\ eobs.initializedAtStart /\ eng.cpuUsage_ = "measured"
    /\ eng.params_.decayTime = 17 /\ ~eng.params_.bypass

\* C14: no processBlock call, mono or stereo, requests or releases heap
\* memory, the parameter application it performs (setDecayTime, setPreDelay,
\* setRoomSize, setDensity, setHighFreqDamping) included.
C14_NoHeapOnAudioPath ==
    (eobs.op = "processBlock" /\ eobs.initializedAtStart) => eobs.heap = 0

\* C15: setPreset(Custom) leaves every parameter cell as it was, the seven
\* numeric targets and bypass alike, whatever calls came before; of the
\* engine only the current preset changes.
C15_CustomKeepsParameters ==
    [][(eobs'.calls # eobs.calls /\ eobs'.op = "setPreset" /\ eobs'.arg[1] = "Custom") =>
        eng' = [eng EXCEPT !.currentPreset_ = "Custom"]]_vars

(***************************************************************************)
(* Specification SpecAP: one FDNReverb::AllPassFilter fed sample by        *)
(* sample.  Here samples are exact numbers: with gain 0.5 and inputs that  *)
(* are multiples of 2^(MaxAPSamples + 1) every product is an integer.      *)
(***************************************************************************)
APLength == 2
MaxAPSamples == 5

\* the gain setDensity(0.0f) gives every diffusion stage, in 1/1000
APGain == 500

APAmplitude == Pow2(MaxAPSamples + 1)

\* gain_ * sample
APX_scale(gain, s) == (gain * s) \div 1000

\* AllPassFilter::process on exact samples
APX_process(ap, input) ==
    Let1(DL_process(ap.delay_, 0), LAMBDA rd :
    Let1(APX_scale(ap.gain_, ap.lastOutput_) + rd.output - APX_scale(ap.gain_, input),
         LAMBDA output :
    Let1(DL_process(rd.line, input + APX_scale(ap.gain_, output)), LAMBDA wr :
        [ filter |-> [ap EXCEPT !.delay_ = wr.line, !.lastOutput_ = output],
          output |-> output ])))

InitAP ==
    /\ dl = AllPassFilter(APLength, APGain)
    /\ dlObs = [op |-> "AllPassFilter", x |-> << >>, y |-> << >>]
    /\ fdn = Idle /\ fobs = Idle /\ eng = Idle /\ eobs = Idle
    /\ sm = Idle /\ smObs = Idle

\* x and y: the inputs given and the outputs returned since the last clear
APProcess ==
    /\ Len(dlObs.x) < MaxAPSamples
    /\ \E input \in {0, APAmplitude, -APAmplitude} :
         \E r \in {APX_process(dl, input)} :
            /\ dl' = r.filter
            /\ dlObs' = [op |-> "process", x |-> Append(dlObs.x, input),
                         y |-> Append(dlObs.y, r.output)]
    /\ UNCHANGED <<fdnvars, engvars, smvars>>

APClear ==
    /\ dlObs.op = "process"
    /\ dl' = AP_clear(dl)
    /\ dlObs' = [op |-> "clear", x |-> << >>, y |-> << >>]
    /\ UNCHANGED <<fdnvars, engvars, smvars>>

NextAP == APProcess \/ APClear

SpecAP == InitAP /\ [][NextAP]_vars

\* v[n] = x[n] + g * v[n - L], zero before the first sample
RECURSIVE SchroederV(_, _, _, _)
SchroederV(x, n, L, g) ==
    IF n < 1 THEN 0 ELSE x[n] + APX_scale(g, SchroederV(x, n - L, L, g))

\* C16: an all-pass stage of length L and gain g returns, for every input
\* sequence x since a clear, y[n] = -g*x[n] + v[n-L] with
\* v[n] = x[n] + g*v[n-L]: the delayed term is what its delay line stored L
\* samples earlier, zero for n < L.
C16_AllPassEquation ==
    \A n \in DOMAIN dlObs.y :
        dlObs.y[n] = SchroederV(dlObs.x, n - APLength, APLength, dl.gain_)
                        - APX_scale(dl.gain_, dlObs.x[n])

(***************************************************************************)
(* Specification SpecLine: one of the FDN's delay lines as the sample loop *)
(* of processMono drives it, with whole delays and injected values that    *)
(* tell the samples apart (sample n injects n or -n).                      *)
(***************************************************************************)
MaxLineSamples == 6

LineLengths == {DLMaxLength, DLMaxLength + 1}

\* what one iteration of the sample loop does to line j:
\* delayOutputs_[j] = delayLines_[j]->process(0); ...
\* delayLines_[j]->process(delayInput);
FDN_lineSample(d, delayInput) ==
    Let1(DL_process(d, 0), LAMBDA rd :
        [ line |-> DL_process(rd.line, delayInput).line, delayOutput |-> rd.output ])

InitLine ==
    /\ \E N \in LineLengths : \E D \in 1 .. (N - 1) :
          dl = DL_setDelay(DelayLine(N), D * Q)
    /\ dlObs = [op |-> "DelayLine", injected |-> << >>, delayOutput |-> 0]
    /\ fdn = Idle /\ fobs = Idle /\ eng = Idle /\ eobs = Idle
    /\ sm = Idle /\ smObs = Idle

\* injected: the values written by the write pass since the last clear
LineSample ==
    /\ Len(dlObs.injected) < MaxLineSamples
    /\ \E sign \in {1, -1} :
         \E r \in {FDN_lineSample(dl, sign * (Len(dlObs.injected) + 1))} :
            /\ dl' = r.line
            /\ dlObs' = [op |-> "sample",
                         injected |-> Append(dlObs.injected, sign * (Len(dlObs.injected) + 1)),
                         delayOutput |-> r.delayOutput]
    /\ UNCHANGED <<fdnvars, engvars, smvars>>

LineClear ==
    /\ dlObs.op = "sample"
    /\ dl' = DL_clear(dl)
    /\ dlObs' = [op |-> "clear", injected |-> << >>, delayOutput |-> 0]
    /\ UNCHANGED <<fdnvars, engvars, smvars>>

NextLine == LineSample \/ LineClear

SpecLine == InitLine /\ [][NextLine]_vars

\* C17: in the sample loop the read pass of sample n returns, for a line of
\* whole delay D in 1 .. N-1, odd or even, exactly the value the write pass
\* injected at sample n - D, and zero while n <= D after a clear; the zero
\* written by the read pass is never what comes back in place of an
\* injected value.
C17_ReadReturnsInjection ==
    dlObs.op = "sample" =>
        LET n == Len(dlObs.injected)
            D == dl.delay_ \div Q
        IN  dlObs.delayOutput = IF n > D THEN dlObs.injected[n - D] ELSE 0

\* the delay lines a process call reads: the FDN lines, the pre-delay line,
\* the lines inside the diffusion and early-reflection stages and, for a
\* stereo block, the two cross-feed lines
LinesRead(f, op) ==
    { f.delayLines_[k] : k \in DOMAIN f.delayLines_ }
        \cup {f.preDelayLine_}
        \cup { f.diffusionFilters_[k].delay_ : k \in DOMAIN f.diffusionFilters_ }
        \cup { f.earlyReflectionFilters_[k].delay_ : k \in DOMAIN f.earlyReflectionFilters_ }
        \cup (IF op = "processStereo"
              THEN {f.crossFeedProcessor_.crossDelayL_, f.crossFeedProcessor_.crossDelayR_}
              ELSE {})

\* C18: every delay line that a block has been processed through holds a
\* delay D with 1 <= D <= N - 1, N its buffer length: the FDN lines, the
\* pre-delay line, the internal lines of the diffusion and early-reflection
\* all-pass stages and the cross-feed lines.
C18_DelaysInRange ==
    (IsProcess(fobs.op) /\ fobs.numSamples > 0) =>
        \A d \in LinesRead(fdn, fobs.op) :
            Q <= d.delay_ /\ d.delay_ <= (d.maxLength_ - 1) * Q

\* C19: when processBlock has run the samples of a block through the
\* reverb, the gain of the feedback matrix is min(g* . hf . lf, g_cap) with
\* g_cap = min(0.97, 0.98 - 0.03 * roomSize), computed from the room size,
\* decay and damping values the reverb was given for that same block.
C19_MatrixGainOfBlock ==
    (eobs.op = "processBlock" /\ eobs.path \in ActivePaths /\ Len(eobs.inputs[1]) > 0) =>
        eng.fdnReverb_.feedbackMatrix_ = FDN_finalGain(eng.fdnReverb_)

\* C20: after setDensity(d), which every processed block calls with the
\* density target, diffusion stage i = 0..7 has the gain 0.70 - 0.03*i +
\* 0.3*d, limited so that it stays below 0.95 (gains in 1/1000, d in
\* percent): the descending baselines of the stages survive the call.
C20_DensityKeepsBaselines ==
    (eobs.op = "processBlock" /\ eobs.path \in ActivePaths) =>
        \A k \in DOMAIN eng.fdnReverb_.diffusionFilters_ :
            LET gain == eng.fdnReverb_.diffusionFilters_[k].gain_
                want == 700 - 30 * (k - 1) + 3 * eng.fdnReverb_.density_
            IN  gain < 950 /\ (want < 950 => gain = want)

(***************************************************************************)
(* Specification SpecXF: one FDNReverb::CrossFeedProcessor with stereo     *)
(* width 1 and bypass off, on exact samples: sample n feeds 4n or -4n to   *)
(* the left and 4n + 2 to the right channel, the delay is a whole number   *)
(* of samples and the amount is 0.5 or 1.                                  *)
(***************************************************************************)
MaxXFSamples == 5

\* crossFeedAmount_ in percent
XFAmounts == {50, 100}

\* delayed * crossFeedAmount_
XFX_scale(amount, s) == (amount * s) \div 100

\* one iteration of the cross-feed loop of CrossFeedProcessor::processStereo
XFX_sample(xf, inputL, inputR) ==
    Let1(DL_process(xf.crossDelayL_, 0), LAMBDA rdL :
    Let1(DL_process(xf.crossDelayR_, 0), LAMBDA rdR :
    Let1(inputL + (IF xf.phaseInvert_ THEN -XFX_scale(xf.crossFeedAmount_, rdR.output)
                   ELSE XFX_scale(xf.crossFeedAmount_, rdR.output)), LAMBDA mixedL :
    Let1(inputR + XFX_scale(xf.crossFeedAmount_, rdL.output), LAMBDA mixedR :
        [ xf    |-> [xf EXCEPT !.crossDelayL_ = DL_process(rdL.line, inputL).line,
                               !.crossDelayR_ = DL_process(rdR.line, inputR).line],
          left  |-> ((mixedL + mixedR) + ((mixedL - mixedR) * xf.stereoWidth_) \div 100) \div 2,
          right |-> ((mixedL + mixedR) - ((mixedL - mixedR) * xf.stereoWidth_) \div 100) \div 2 ]))))

InitXF ==
    /\ \E N \in LineLengths : \E d \in 1 .. (N - 1) :
         \E a \in XFAmounts : \E invert \in BOOLEAN :
            dl = [ crossDelayL_     |-> DL_setDelay(DelayLine(N), d * Q),
                   crossDelayR_     |-> DL_setDelay(DelayLine(N), d * Q),
                   crossFeedAmount_ |-> a,
                   stereoWidth_     |-> 100,
                   phaseInvert_     |-> invert,
                   bypass_          |-> FALSE ]
    /\ dlObs = [op |-> "CrossFeedProcessor", left |-> << >>, right |-> << >>,
                outL |-> 0, outR |-> 0]
    /\ fdn = Idle /\ fobs = Idle /\ eng = Idle /\ eobs = Idle
    /\ sm = Idle /\ smObs = Idle

\* left, right: the inputs given since the last clear
XFProcess ==
    /\ Len(dlObs.left) < MaxXFSamples
    /\ \E sign \in {1, -1} :
         \E r \in {XFX_sample(dl, sign * 4 * (Len(dlObs.left) + 1),
                               4 * (Len(dlObs.left) + 1) + 2)} :
            /\ dl' = r.xf
            /\ dlObs' = [op |-> "processStereo",
                         left  |-> Append(dlObs.left, sign * 4 * (Len(dlObs.left) + 1)),
                         right |-> Append(dlObs.right, 4 * (Len(dlObs.left) + 1) + 2),
                         outL |-> r.left, outR |-> r.right]
    /\ UNCHANGED <<fdnvars, engvars, smvars>>

XFClear ==
    /\ dlObs.op = "processStereo"
    /\ dl' = XF_clear(dl)
    /\ dlObs' = [op |-> "clear", left |-> << >>, right |-> << >>, outL |-> 0, outR |-> 0]
    /\ UNCHANGED <<fdnvars, engvars, smvars>>

NextXF == XFProcess \/ XFClear

SpecXF == InitXF /\ [][NextXF]_vars

\* x[n - d], zero before the first sample
Delayed(x, n, d) == IF n > d THEN x[n - d] ELSE 0

\* C21: with bypass off and width 1 the cross-feed stage returns for every
\* sample n  L_out[n] = L_in[n] + s*a*R_in[n-d]  and
\* R_out[n] = R_in[n] + a*L_in[n-d], a the cross-feed amount, d the
\* configured delay in whole samples, s = -1 with phase inversion, else +1;
\* the delayed terms are zero for n <= d after a clear.
C21_CrossFeedEquation ==
    dlObs.op = "processStereo" =>
        LET n == Len(dlObs.left)
            d == dl.crossDelayL_.delay_ \div Q
            s == IF dl.phaseInvert_ THEN -1 ELSE 1
        IN  /\ dlObs.outL = dlObs.left[n]
                    + s * XFX_scale(dl.crossFeedAmount_, Delayed(dlObs.right, n, d))
            /\ dlObs.outR = dlObs.right[n]
                    + XFX_scale(dl.crossFeedAmount_, Delayed(dlObs.left, n, d))

\* C22: in a stereo block that is not bypassed the wet bus goes from
\* FDNReverb::processStereo (cross-feed of the inputs, FDN, Spread, Tone)
\* straight into the wet/dry mix: nothing processes the wet signal after
\* Tone, whatever the crossFeed target is.
C22_ToneIsLast ==
    (eobs.op = "processBlock" /\ Len(eobs.inputs) = 2
        /\ eobs.path \notin {"passthrough", "bypass"}) => eobs.path = "stereo"

(***************************************************************************)
(* Specification SpecBypass: an initialised engine that is given mono      *)
(* blocks while its bypass flag is switched on and off.                    *)
(***************************************************************************)
MaxBypassCalls == 5

BypassInputs == { << <<1>> >>, << <<0>> >> }

\* path: the branch the last processBlock took, prevPath: the one before;
\* startClean: the sample loop of the last block began with every delay
\* line zeroed
InitBypass ==
    /\ eng = ENG_initialize(ReverbEngine, 48000, 2).eng
    /\ eobs = [ op |-> "initialize", path |-> "", prevPath |-> "", startClean |-> TRUE,
                calls |-> 0 ]
    /\ dl = Idle /\ dlObs = Idle /\ fdn = Idle /\ fobs = Idle
    /\ sm = Idle /\ smObs = Idle

BProcessBlock ==
    /\ eobs.calls < MaxBypassCalls
    /\ \E inputs \in BypassInputs :
         \E r \in {ENG_processBlock(eng, inputs, "run")} :
            /\ eng' = r.eng
            /\ eobs' = [ op |-> "processBlock", path |-> r.path, prevPath |-> eobs.path,
                         startClean |->
                             AllLinesZero(FDN_checkAndFlushBuffers(ENG_updateFDN(eng))),
                         calls |-> eobs.calls + 1 ]
    /\ UNCHANGED <<dlvars, fdnvars, smvars>>

BSetBypass ==
    /\ eobs.calls < MaxBypassCalls
    /\ \E bypass \in BOOLEAN :
         /\ eng' = ENG_setBypass(eng, bypass)
         /\ eobs' = [eobs EXCEPT !.op = "setBypass", !.calls = @ + 1]
    /\ UNCHANGED <<dlvars, fdnvars, smvars>>

NextBypass == BProcessBlock \/ BSetBypass

SpecBypass == InitBypass /\ [][NextBypass]_vars

\* C23: the first block processed after bypass went from true to false
\* starts with the wet tail zeroed: no delay line still holds audio from
\* before the bypass.
C23_TailZeroedAfterBypass ==
    (eobs.op = "processBlock" /\ eobs.prevPath = "bypass" /\ eobs.path = "mono") =>
        eobs.startClean

(***************************************************************************)
(* Specification SpecIR: one FDNReverb that processes mono blocks and runs *)
(* the impulse-response self-test.                                         *)
(***************************************************************************)
MaxIRCalls == 5
MaxIRLength == 3

\* the input of the self-test: 1.0f at i = 0, then silence
Impulse(lengthSamples) == [i \in 1 .. lengthSamples |-> IF i = 1 THEN 1 ELSE 0]

\* generateImpulseResponse: copies of delayOutputs_ and matrixOutputs_ are
\* kept, clear() is called, the sample loop of processMono runs on the
\* impulse, and the two copies are put back
FDN_generateImpulseResponse(f, lengthSamples) ==
    Let1(FDN_sampleLoop(FDN_clear(f), Impulse(lengthSamples), << >>, 1), LAMBDA r :
        [ fdn |-> [r.fdn EXCEPT !.delayOutputs_ = f.delayOutputs_,
                                !.matrixOutputs_ = f.matrixOutputs_],
          impulseResponse |-> r.output ])

InitIR ==
    /\ \E sr \in FDNSampleRates, n \in FDNLineCounts : fdn = FDNReverb(sr, n)
    /\ fobs = [op |-> "new", calls |-> 0]
    /\ dl = Idle /\ dlObs = Idle /\ eng = Idle /\ eobs = Idle
    /\ sm = Idle /\ smObs = Idle

IRProcessMono ==
    /\ fobs.calls < MaxIRCalls
    /\ \E input \in FDNBlocks :
         /\ fdn' = FDN_processMono(fdn, input).fdn
         /\ fobs' = [op |-> "processMono", calls |-> fobs.calls + 1]
    /\ UNCHANGED <<dlvars, engvars, smvars>>

IRGenerateImpulseResponse ==
    /\ fobs.calls < MaxIRCalls
    /\ \E lengthSamples \in 1 .. MaxIRLength :
         /\ fdn' = FDN_generateImpulseResponse(fdn, lengthSamples).fdn
         /\ fobs' = [op |-> "generateImpulseResponse", calls |-> fobs.calls + 1]
    /\ UNCHANGED <<dlvars, engvars, smvars>>

NextIR == IRProcessMono \/ IRGenerateImpulseResponse

SpecIR == InitIR /\ [][NextIR]_vars

\* C24: generateImpulseResponse leaves the reverb as it found it: delay-line
\* contents and cursors, all-pass and damping filter state, the pre-delay
\* line, delayOutputs_ and matrixOutputs_ are the same after the call as
\* before it.
C24_SelfTestRestores ==
    [][(fobs'.calls # fobs.calls /\ fobs'.op = "generateImpulseResponse") =>
        fdn' = fdn]_vars

\* b0 = 1, b1 = b2 = a1 = a2 = 0, and the output equals the input whatever
\* x1, x2, y1, y2 hold
PassesInput(b) == b.unity /\ \A x \in Sample : BQ_process(b, x).output = x

\* C25: a damping percent of 0, HF or LF, puts the in-loop biquad at b0 = 1,
\* b1 = b2 = a1 = a2 = 0 whatever the cutoff and whatever was set before,
\* and from then on the filter returns its input whatever history it holds.
C25_ZeroDampingIsUnity ==
    \A k \in DOMAIN fdn.dampingFilters_ :
        /\ fdn.dampingFilters_[k].hfDampingPercent_ = 0
               => PassesInput(fdn.dampingFilters_[k].hfFilter_)
        /\ fdn.dampingFilters_[k].lfDampingPercent_ = 0
               => PassesInput(fdn.dampingFilters_[k].lfFilter_)

\* HF damping was set back to 0 on a filter that holds a non-zero history
C25_Witness ==
    /\ fobs.op = "setHighFreqDamping" /\ fobs.arg = 0
    /\ \E k \in DOMAIN fdn.dampingFilters_ :
          /\ fdn.dampingFilters_[k].hfFilter_.unity
          /\ fdn.dampingFilters_[k].hfFilter_.y1 # 0
          /\ fdn.dampingFilters_[k].hfFilter_.x1 # 0

\* C26: when an initialised engine processes a stereo block of at most
\* maxBlockSize_ samples, every copy into a scratch buffer stays inside it:
\* the engine's temp, wet and dry buffers (maxBlockSize_ floats each) and
\* the temporary left/right buffers of the StereoEnhancer, for every
\* crossFeed value.
C26_ScratchWritesInBounds ==
    (eobs.op = "processBlock" /\ eobs.initializedAtStart /\ Len(eobs.inputs) = 2
        /\ eobs.path \notin {"passthrough", "bypass"}) =>
        /\ Len(eobs.inputs[1]) <= eng.maxBlockSize_
        /\ eobs.path # "stereo" => ~SE_overruns(eng.crossFeed_, Len(eobs.inputs[1]))

\* C27: when processMono or processStereo returns, needsBufferFlush_ is
\* false and roomSize_ is at most ROOM_SIZE_CHANGE_THRESHOLD away from
\* lastRoomSize_ (the size recorded at the last size-triggered flush); so a
\* block that finds no flush scheduled but the room size drifted more than
\* the threshold away from lastRoomSize_ still starts with every line zeroed.
C27_FlushSettledAfterBlock ==
    IsProcess(fobs.op) =>
        /\ ~fdn.needsBufferFlush_
        /\ Abs(fdn.roomSize_ - fdn.lastRoomSize_) <= ROOM_SIZE_CHANGE_THRESHOLD
        /\ (~fobs.flag /\ Abs(fobs.roomSize - fobs.lastRoom) > ROOM_SIZE_CHANGE_THRESHOLD)
               => (fobs.startClean /\ fdn.lastRoomSize_ = fobs.roomSize)

\* small steps drifted past the threshold with no flush scheduled, and the
\* block zeroed lines that held signal
C27_Witness ==
    /\ IsProcess(fobs.op)
    /\ ~fobs.flag
    /\ Abs(fobs.roomSize - fobs.lastRoom) > ROOM_SIZE_CHANGE_THRESHOLD
    /\ fobs.dirty
    /\ fobs.startClean
    /\ ~fdn.needsBufferFlush_

(***************************************************************************)
(* AudioBuffer<T> (Reverb/Shared/DSP/AudioBuffer.hpp): the circular buffer *)
(* with one writer thread and one reader thread.  Every load and store of  *)
(* writeIndex_ and readIndex_ is a step of its own; sm is the buffer,      *)
(* smObs the two threads' locals and the ledger of accepted and returned   *)
(* samples.                                                                *)
(***************************************************************************)
RingCapacities == {2, 3}
MaxRingWrites == 4
MaxRingReads == 4

\* AudioBuffer(capacity): resize(capacity), clear()
AudioBuffer(capacity) ==
    [ capacity_ |-> capacity, buffer_ |-> Zeros(capacity),
      writeIndex_ |-> 0, readIndex_ |-> 0 ]

RB_next(index, capacity) == (index + 1) % capacity

\* write(): if (nextWrite == readIndex_.load()) return false
RB_full_never(nextWrite, readIndex) == FALSE
RB_full(nextWrite, readIndex) == nextWrite = readIndex

\* read(): if (currentRead == writeIndex_.load()) return false
RB_empty(currentRead, writeIndex) == currentRead = writeIndex

\* samples accepted by write() and not yet returned by read()
Unread == Len(smObs.accepted) - Len(smObs.got)

InitRing ==
    /\ \E C \in RingCapacities : sm = AudioBuffer(C)
    /\ smObs = [ wpc |-> "idle", rpc |-> "idle",
                 currentWrite |-> 0, nextWrite |-> 0, currentRead |-> 0,
                 wsample |-> 0, rsample |-> 0,
                 wcalls |-> 0, rcalls |-> 0,
                 accepted |-> << >>, got |-> << >>,
                 wresult |-> "none", wunread |-> 0,
                 rresult |-> "none", runread |-> 0 ]
    /\ dl = Idle /\ dlObs = Idle /\ fdn = Idle /\ fobs = Idle
    /\ eng = Idle /\ eobs = Idle

\* size_t currentWrite = writeIndex_.load(); nextWrite = (currentWrite + 1) % capacity_
RingWriteLoad ==
    /\ smObs.wpc = "idle"
    /\ smObs.wcalls < MaxRingWrites
    /\ smObs' = [smObs EXCEPT !.wpc = "check",
                              !.wcalls = @ + 1,
                              !.wsample = smObs.wcalls + 1,
                              !.currentWrite = sm.writeIndex_,
                              !.nextWrite = RB_next(sm.writeIndex_, sm.capacity_)]
    /\ UNCHANGED <<sm, dlvars, fdnvars, engvars>>

\* if (nextWrite == readIndex_.load()) return false
RingWriteCheck ==
    /\ smObs.wpc = "check"
    /\ smObs' = IF RB_full(smObs.nextWrite, sm.readIndex_)
                THEN [smObs EXCEPT !.wpc = "idle", !.wresult = "full", !.wunread = Unread]
                ELSE [smObs EXCEPT !.wpc = "store", !.wresult = "ok", !.wunread = Unread]
    /\ UNCHANGED <<sm, dlvars, fdnvars, engvars>>

\* buffer_[currentWrite] = sample
RingWriteStore ==
    /\ smObs.wpc = "store"
    /\ sm' = [sm EXCEPT !.buffer_[smObs.currentWrite + 1] = smObs.wsample]
    /\ smObs' = [smObs EXCEPT !.wpc = "publish"]
    /\ UNCHANGED <<dlvars, fdnvars, engvars>>

\* writeIndex_.store(nextWrite); return true
RingWritePublish ==
    /\ smObs.wpc = "publish"
    /\ sm' = [sm EXCEPT !.writeIndex_ = smObs.nextWrite]
    /\ smObs' = [smObs EXCEPT !.wpc = "idle",
                              !.accepted = Append(@, smObs.wsample)]
    /\ UNCHANGED <<dlvars, fdnvars, engvars>>

\* size_t currentRead = readIndex_.load()
RingReadLoad ==
    /\ smObs.rpc = "idle"
    /\ smObs.rcalls < MaxRingReads
    /\ smObs' = [smObs EXCEPT !.rpc = "check",
                              !.rcalls = @ + 1,
                              !.currentRead = sm.readIndex_]
    /\ UNCHANGED <<sm, dlvars, fdnvars, engvars>>

\* if (currentRead == writeIndex_.load()) return false
RingReadCheck ==
    /\ smObs.rpc = "check"
    /\ smObs' = IF RB_empty(smObs.currentRead, sm.writeIndex_)
                THEN [smObs EXCEPT !.rpc = "idle", !.rresult = "empty", !.runread = Unread]
                ELSE [smObs EXCEPT !.rpc = "copy", !.rresult = "ok", !.runread = Unread]
    /\ UNCHANGED <<sm, dlvars, fdnvars, engvars>>

\* sample = buffer_[currentRead]
RingReadCopy ==
    /\ smObs.rpc = "copy"
    /\ smObs' = [smObs EXCEPT !.rpc = "publish",
                              !.rsample = sm.buffer_[smObs.currentRead + 1]]
    /\ UNCHANGED <<sm, dlvars, fdnvars, engvars>>

\* readIndex_.store((currentRead + 1) % capacity_); return true
RingReadPublish ==
    /\ smObs.rpc = "publish"
    /\ sm' = [sm EXCEPT !.readIndex_ = RB_next(smObs.currentRead, sm.capacity_)]
    /\ smObs' = [smObs EXCEPT !.rpc = "idle", !.got = Append(@, smObs.rsample)]
    /\ UNCHANGED <<dlvars, fdnvars, engvars>>

NextRing ==
    \/ RingWriteLoad
    \/ RingWriteCheck
    \/ RingWriteStore
    \/ RingWritePublish
    \/ RingReadLoad
    \/ RingReadCheck
    \/ RingReadCopy
    \/ RingReadPublish

SpecRing == InitRing /\ [][NextRing]_vars

\* C28: with one writer and one reader interleaved at every load and
\* store, the samples read() returned are, in order, a prefix of the samples
\* write() accepted; at most capacity_ - 1 accepted samples are unread; a
\* write() that returned false found capacity_ - 1 unread and a read() that
\* returned false found none; and the writer never stores into the slot the
\* reader is copying from.
C28_RingIsFifo ==
    /\ Len(smObs.got) <= Len(smObs.accepted)
    /\ smObs.got = SubSeq(smObs.accepted, 1, Len(smObs.got))
    /\ Unread <= sm.capacity_ - 1
    /\ smObs.wresult = "full" => smObs.wunread = sm.capacity_ - 1
    /\ smObs.rresult = "empty" => smObs.runread = 0
    /\ ~(smObs.wpc = "store" /\ smObs.rpc = "copy"
            /\ smObs.currentWrite = smObs.currentRead)

\* the indices have wrapped, a write was refused on a full buffer while the
\* reader was in the middle of a read, and samples have been returned
C28_Witness ==
    /\ Len(smObs.accepted) > sm.capacity_
    /\ Len(smObs.got) >= sm.capacity_
    /\ smObs.wresult = "full"
    /\ smObs.rpc = "publish"

(***************************************************************************)
(* DelayLine<T> of AudioBuffer.hpp (not the DelayLine of FDNReverb.cpp).   *)
(* buffer_ is a std::vector: `size' elements exist, `data' is the storage  *)
(* the vector keeps allocated.  Delays are whole samples, so the           *)
(* interpolation returns sample1.                                          *)
(***************************************************************************)
TDLSizes == {2, 3}
MaxTDLCalls == 4

\* std::vector::resize on a vector of v.size elements: the new elements are 0
VecResize(v, n) ==
    [ size |-> n,
      data |-> [i \in 1 .. StdMax(n, Len(v.data)) |->
                   IF i > v.size /\ i <= n THEN 0 ELSE v.data[i]] ]

\* std::vector::clear: no element is left, the storage stays allocated
VecClear(v) == [v EXCEPT !.size = 0]

TDL_clear(d) ==
    [d EXCEPT !.buffer_ = VecClear(d.buffer_), !.writeIndex_ = 0, !.delayInSamples_ = 0]

TDL_resize(d, maxDelayInSamples) ==
    TDL_clear([d EXCEPT !.buffer_ = VecResize(d.buffer_, maxDelayInSamples),
                        !.maxDelay_ = maxDelayInSamples])

\* DelayLine(maxDelayInSamples), maxDelayInSamples > 0
TDelayLine(maxDelayInSamples) ==
    TDL_resize([ buffer_ |-> [size |-> 0, data |-> << >>], maxDelay_ |-> 0,
                 writeIndex_ |-> 0, delayInSamples_ |-> 0 ], maxDelayInSamples)

TDL_setDelay(d, delayInSamples) ==
    [d EXCEPT !.delayInSamples_ = StdMax(0, StdMin(delayInSamples, d.maxDelay_ - 1))]

TDL_readIndex1(d) ==
    Let1(d.writeIndex_ - d.delayInSamples_, LAMBDA readPos :
        (IF readPos < 0 THEN readPos + d.maxDelay_ ELSE readPos) % d.maxDelay_)

\* the slots process() indexes: writeIndex_, readIndex1, readIndex2
TDL_touched(d) ==
    { d.writeIndex_, TDL_readIndex1(d), (TDL_readIndex1(d) + 1) % d.maxDelay_ }

TDL_inBounds(d) == \A i \in TDL_touched(d) : i < d.buffer_.size

\* process(input) on the storage; outside the vector's size the access is
\* undefined: the build either faults (ub = "crash") or uses the storage
TDL_process(d, input, ub) ==
    IF ~TDL_inBounds(d) /\ ub = "crash"
    THEN [line |-> d, output |-> 0, crashed |-> TRUE]
    ELSE Let1([d EXCEPT !.buffer_.data[d.writeIndex_ + 1] = input], LAMBDA w :
             [ line    |-> [w EXCEPT !.writeIndex_ = (d.writeIndex_ + 1) % d.maxDelay_],
               output  |-> w.buffer_.data[TDL_readIndex1(w) + 1],
               crashed |-> FALSE ])

InitTDL ==
    /\ \E n \in TDLSizes : dl = TDelayLine(n)
    /\ dlObs = [op |-> "DelayLine", calls |-> 0, inBounds |-> TRUE, output |-> 0]
    /\ fdn = Idle /\ fobs = Idle /\ eng = Idle /\ eobs = Idle
    /\ sm = Idle /\ smObs = Idle

TDLResize ==
    /\ dlObs.op # "crash" /\ dlObs.calls < MaxTDLCalls
    /\ \E n \in TDLSizes : dl' = TDL_resize(dl, n)
    /\ dlObs' = [op |-> "resize", calls |-> dlObs.calls + 1, inBounds |-> TRUE, output |-> 0]
    /\ UNCHANGED <<fdnvars, engvars, smvars>>

TDLClear ==
    /\ dlObs.op # "crash" /\ dlObs.calls < MaxTDLCalls
    /\ dl' = TDL_clear(dl)
    /\ dlObs' = [op |-> "clear", calls |-> dlObs.calls + 1, inBounds |-> TRUE, output |-> 0]
    /\ UNCHANGED <<fdnvars, engvars, smvars>>

TDLSetDelay ==
    /\ dlObs.op # "crash" /\ dlObs.calls < MaxTDLCalls
    /\ \E x \in 0 .. 2 : dl' = TDL_setDelay(dl, x)
    /\ dlObs' = [op |-> "setDelay", calls |-> dlObs.calls + 1, inBounds |-> TRUE,
                 output |-> 0]
    /\ UNCHANGED <<fdnvars, engvars, smvars>>

TDLProcess ==
    /\ dlObs.op # "crash" /\ dlObs.calls < MaxTDLCalls
    /\ \E ub \in {"run", "crash"} :
          \E r \in {TDL_process(dl, dlObs.calls + 1, ub)} :
             /\ dl' = r.line
             /\ dlObs' = [op |-> IF r.crashed THEN "crash" ELSE "process",
                          calls |-> dlObs.calls + 1,
                          inBounds |-> TDL_inBounds(dl),
                          output |-> r.output]
    /\ UNCHANGED <<fdnvars, engvars, smvars>>

NextTDL == TDLResize \/ TDLClear \/ TDLSetDelay \/ TDLProcess

SpecTDL == InitTDL /\ [][NextTDL]_vars

\* C29: after resize(n), n > 0, and after any later clear(), buffer_ holds
\* maxDelay_ = n samples, all zero, with writeIndex_ 0; and every process()
\* indexes only slots that exist.
C29_LineKeepsItsSlots ==
    /\ dlObs.op \in {"resize", "clear"} =>
          /\ dl.buffer_.size = dl.maxDelay_
          /\ \A i \in 1 .. dl.buffer_.size : dl.buffer_.data[i] = 0
          /\ dl.writeIndex_ = 0
    /\ dlObs.op \in {"process", "crash"} => dlObs.inBounds

(***************************************************************************)
(* MemoryBatteryManager (Reverb/Audio/Optimization): aligned buffers and   *)
(* the currentMemoryUsage_ counter.  sm is the manager, smObs the ledger   *)
(* of buffers handed out and not yet freed.  A buffer is <<"pool", p, i>>  *)
(* (buffer i of pool p) or <<"direct", id>> (from aligned_alloc).          *)
(***************************************************************************)
MaxMBMCalls == 4
SizeofFloat == 4
BuffersPerPool == 8
PoolAlignment == 16
PoolSizes == <<64, 256, 1024, 4096>>
\* 1024 * 1024
BytesPerMB == 1048576
\* memoryBudgetMB: none, and the default
BudgetArgs == {0, 32}
Strategies == {"Pooled", "Dynamic"}
\* numElements: a pool size, between two pool sizes, above every pool
ElementArgs == {64, 100, 5000}
AlignmentArgs == {16, 32}
NullPtr == <<"nullptr">>

MemoryPool(size, align, count) ==
    [ bufferSize |-> size, alignment |-> align, isUsed |-> [i \in 1 .. count |-> FALSE] ]

MBM_initializeMemoryPools ==
    [p \in DOMAIN PoolSizes |-> MemoryPool(PoolSizes[p], PoolAlignment, BuffersPerPool)]

MemoryBatteryManager(memoryBudgetMB, strategy) ==
    [ memoryStrategy_ |-> strategy,
      totalAllocatedMemory_ |-> 0,
      maxMemoryBudget_ |-> memoryBudgetMB * BytesPerMB,
      currentMemoryUsage_ |-> 0,
      memoryPools_ |-> IF strategy = "Pooled" THEN MBM_initializeMemoryPools ELSE << >>,
      nextDirect |-> 1 ]

\* the pools allocateFromPool looks into, and the free slots of each
MBM_freeSlots(mgr, numElements, alignment) ==
    { <<p, i>> \in (DOMAIN mgr.memoryPools_) \X (1 .. BuffersPerPool) :
        /\ mgr.memoryPools_[p].bufferSize >= numElements
        /\ mgr.memoryPools_[p].alignment >= alignment
        /\ ~mgr.memoryPools_[p].isUsed[i] }

\* first pool in order, first unused buffer in it
MBM_firstSlot(slots) ==
    CHOOSE s \in slots : \A t \in slots : s[1] < t[1] \/ (s[1] = t[1] /\ s[2] <= t[2])

MBM_allocateFromPool(mgr, numElements, alignment) ==
    Let1(MBM_freeSlots(mgr, numElements, alignment), LAMBDA slots :
        IF slots = {} THEN [mgr |-> mgr, buffer |-> NullPtr]
        ELSE Let1(MBM_firstSlot(slots), LAMBDA s :
                 [ mgr |-> [mgr EXCEPT !.memoryPools_[s[1]].isUsed[s[2]] = TRUE],
                   buffer |-> <<"pool", s[1], s[2]>> ]))

MBM_returnToPool(mgr, buffer, numElements) ==
    IF buffer[1] = "pool" /\ mgr.memoryPools_[buffer[2]].bufferSize >= numElements
    THEN [ mgr |-> [mgr EXCEPT !.memoryPools_[buffer[2]].isUsed[buffer[3]] = FALSE],
           returned |-> TRUE ]
    ELSE [ mgr |-> mgr, returned |-> FALSE ]

MBM_reclaimPoolMemory(neededBytes) == FALSE

\* the buffer comes from a pool when the strategy is Pooled and a slot
\* is free, otherwise from aligned_alloc
MBM_obtain(mgr, numElements, alignment) ==
    Let1(IF mgr.memoryStrategy_ = "Pooled"
         THEN MBM_allocateFromPool(mgr, numElements, alignment)
         ELSE [mgr |-> mgr, buffer |-> NullPtr], LAMBDA r :
        IF r.buffer # NullPtr THEN r
        ELSE [ mgr |-> [mgr EXCEPT !.nextDirect = @ + 1],
               buffer |-> <<"direct", mgr.nextDirect>> ])

MBM_allocateAlignedBuffer(mgr, numElements, alignment) ==
    Let1(numElements * SizeofFloat, LAMBDA sizeBytes :
        IF mgr.currentMemoryUsage_ + sizeBytes > mgr.maxMemoryBudget_
           /\ ~MBM_reclaimPoolMemory(sizeBytes)
        THEN [mgr |-> mgr, buffer |-> NullPtr]
        ELSE Let1(MBM_obtain(mgr, numElements, alignment), LAMBDA r :
                 [ mgr |-> [r.mgr EXCEPT !.currentMemoryUsage_ = @ + sizeBytes,
                                         !.totalAllocatedMemory_ = @ + sizeBytes],
                   buffer |-> r.buffer ]))

MBM_freeAlignedBuffer(mgr, buffer, numElements) ==
    IF buffer = NullPtr THEN mgr
    ELSE Let1(IF mgr.memoryStrategy_ = "Pooled" /\ numElements > 0
              THEN MBM_returnToPool(mgr, buffer, numElements)
              ELSE [mgr |-> mgr, returned |-> FALSE], LAMBDA r :
             IF r.returned THEN r.mgr
             ELSE [r.mgr EXCEPT !.currentMemoryUsage_ = @ - numElements * SizeofFloat])

\* bytes of the buffers handed out and not yet freed
OutstandingBytes(held) ==
    SumSeq([k \in DOMAIN held |-> held[k].numElements * SizeofFloat], Len(held))

Without(held, k) == [j \in 1 .. (Len(held) - 1) |-> IF j < k THEN held[j] ELSE held[j + 1]]

InitMBM ==
    /\ \E mb \in BudgetArgs, st \in Strategies : sm = MemoryBatteryManager(mb, st)
    /\ smObs = [op |-> "MemoryBatteryManager", calls |-> 0, held |-> << >>,
                buffer |-> NullPtr]
    /\ dl = Idle /\ dlObs = Idle /\ fdn = Idle /\ fobs = Idle
    /\ eng = Idle /\ eobs = Idle

MBMAllocate ==
    /\ smObs.calls < MaxMBMCalls
    /\ \E n \in ElementArgs, a \in AlignmentArgs :
          \E r \in {MBM_allocateAlignedBuffer(sm, n, a)} :
             /\ sm' = r.mgr
             /\ smObs' = [op |-> "allocateAlignedBuffer", calls |-> smObs.calls + 1,
                          held |-> IF r.buffer = NullPtr THEN smObs.held
                                   ELSE Append(smObs.held,
                                               [buffer |-> r.buffer, numElements |-> n]),
                          buffer |-> r.buffer]
    /\ UNCHANGED <<dlvars, fdnvars, engvars>>

\* freeAlignedBuffer(buffer, numElements) with the numElements of its allocation
MBMFree ==
    /\ smObs.calls < MaxMBMCalls
    /\ \E k \in DOMAIN smObs.held :
          /\ sm' = MBM_freeAlignedBuffer(sm, smObs.held[k].buffer, smObs.held[k].numElements)
          /\ smObs' = [op |-> "freeAlignedBuffer", calls |-> smObs.calls + 1,
                       held |-> Without(smObs.held, k),
                       buffer |-> smObs.held[k].buffer]
    /\ UNCHANGED <<dlvars, fdnvars, engvars>>

NextMBM == MBMAllocate \/ MBMFree

SpecMBM == InitMBM /\ [][NextMBM]_vars

\* C30: after any sequence of allocateAlignedBuffer calls and matching
\* freeAlignedBuffer(buffer, numElements) calls, currentMemoryUsage_ is the
\* number of bytes handed out and not yet freed (so it is back at its
\* initial 0 when every buffer has been freed).
C30_UsageIsOutstandingBytes ==
    sm.currentMemoryUsage_ = OutstandingBytes(smObs.held)

====
